---------------------------- MODULE Spec2Model ----------------------------
(***************************************************************************)
(* ScareCrow ESP32 firmware: the device control core.                      *)
(*                                                                         *)
(* Three firmware variants live in the repository; one of them is flashed  *)
(* on a device (variable fw):                                              *)
(*   "v2"  esp32/ScareCrowESP32_v2/ScareCrowESP32_v2.ino (captive portal,  *)
(*         remote configuration, status server)                            *)
(*   "v30" esp32/ScareCrowESP32_v3/ScareCrowESP32_v3.ino (captive portal,  *)
(*         fixed cooldown)                                                 *)
(*   "v31" unnamed/part_001 (credentials in config.h, servo duration from  *)
(*         the server)                                                     *)
(* The actions take their inputs as parameters; the specifications run     *)
(* them over different inputs:                                             *)
(*   Spec           the life of a v2 or v3.0 device from power-on          *)
(*   SpecSync       v2, any sequence of config syncs                       *)
(*   SpecTrigger    a provisioned v2 or v3.0 device and its sensor         *)
(*   SpecButton     a v2 device and its reset button                       *)
(*   SpecCapture    a provisioned v2 device, its camera, server and link   *)
(*   SpecDeterrent  one deterrent run of v2 or v3.1, step by step          *)
(*   SpecV31        the life of a v3.1 device, its network and server      *)
(*   SpecLed        the status LED of v2 in the slow blink                 *)
(*   SpecWait       the response wait of the v2 upload, poll by poll       *)
(*   SpecSensor     a provisioned v2 device and a sensor output held HIGH  *)
(*   SpecPortal     a v2 or v3.0 device in its portal and its clients      *)
(* Times are in milliseconds.  An unsigned long (32 bits on the ESP32) is   *)
(* held as the signed 32-bit integer with the same bits: 0 .. 2^31 - 1 as  *)
(* themselves, 2^31 .. 2^32 - 1 as -2^31 .. -1.  Sums and differences are  *)
(* then the integer ones (the ranges of the model stay away from +-2^31),  *)
(* and only the comparisons have to read the bits as unsigned.             *)
(***************************************************************************)
EXTENDS Integers, Sequences, FiniteSets, TLC

(***************************************************************************)
(* Bounds of the model.                                                    *)
(***************************************************************************)
\* time-consuming steps taken since boot
MaxTicks == 4
\* calls of StatusLED::update in the indicator scenario
MaxUpdates == 50
\* update() calls after a counted pattern was started
MaxCalls == 8
\* iterations of loop in the life of a v3.1 device
MaxLoops == 3
\* polls of the response wait of uploadImage
MaxPolls == 110

(***************************************************************************)
(* Program constants.                                                      *)
(***************************************************************************)
MIN_COOLDOWN_SEC == 60
MAX_COOLDOWN_SEC == 600
DEFAULT_COOLDOWN_SEC == 60
DEFAULT_SENSOR_TYPE == 1
ANALOG_SENSOR_THRESHOLD == 500
RESET_BUTTON_HOLD_TIME == 5000
LED_PATTERN_PORTAL_ON == 1000
LED_PATTERN_PORTAL_OFF == 1000
LED_PATTERN_CONNECT_ON == 200
LED_PATTERN_CONNECT_OFF == 200
LED_PATTERN_ERROR_ON == 100
LED_PATTERN_ERROR_OFF == 100
LED_PATTERN_ERROR_COUNT == 3
LED_PATTERN_UPLOAD_ON == 50
LED_PATTERN_UPLOAD_OFF == 50
\* v3.0 / v3.1 config.h
COOLDOWN_SECONDS == 60
SENSOR_THRESHOLD == 400
CONFIG_FETCH_INTERVAL == 30000
DEFAULT_SERVO_DURATION == 20000
\* connectToWiFi (v2): polls of 500 ms
WIFI_POLLS_V2 == 40
\* setup (v3.0): polls of 500 ms
WIFI_POLLS_V30 == 30
\* connectWiFi (v3.1): polls of 500 ms
WIFI_POLLS_V31 == 40
\* sizeof(config.wifiSSID), sizeof(config.wifiPassword), sizeof(config.serverUrl),
\* sizeof(config.deviceId)
SSID_SIZE == 64
PASSWORD_SIZE == 64
URL_SIZE == 128
DEVICEID_SIZE == 32

Min(a, b) == IF a < b THEN a ELSE b

(***************************************************************************)
(* Strings.  A string is its content (id) and its length; two strings with *)
(* the same id are the same text cut at different lengths.                 *)
(***************************************************************************)
Str(i, n) == [id |-> i, len |-> n]
EmptyStr == Str(0, 0)
\* a request argument or stored key that is not there
Absent == Str(0, -1)
\* strncpy(dst, src, n) into a zero-filled buffer of n + 1 bytes
strncpy(src, n) == IF src.len > n THEN Str(src.id, n) ELSE src
strlen(s) == s.len

\* "http://192.168.1.100:8000" (v2), "http://192.168.0.103:8000" (v3)
DEFAULT_SERVER_URL == Str(1, 25)
\* "SCARECROW-%04X" of the chip id
ChipDeviceId == Str(2, 14)
\* "http://<ip>:8000" as resolveServerMdns writes it
MdnsServerUrl == Str(3, 23)

(***************************************************************************)
(* Preferences (NVS): a function from the stored keys to their values.     *)
(***************************************************************************)
NoPrefs == [k \in {} |-> EmptyStr]
PrefsGet(p, key, default) == IF key \in DOMAIN p THEN p[key] ELSE default
PrefsPut(p, key, value) ==
    [k \in (DOMAIN p) \cup {key} |-> IF k = key THEN value ELSE p[k]]
\* a clear that leaves the store as it is
PrefsKept(p) == p
PrefsClear(p) == NoPrefs

VARIABLES
    fw,                 \* the firmware variant flashed on the device
    pc,                 \* position of the single thread of control
    now,                \* time since boot, ms
    ticks,              \* time-consuming steps since boot
    prefs,              \* the persistent store
    config,             \* v2: DeviceConfig config
    isConfigMode,       \* v2
    isConnected,        \* v2
    serverReachable,    \* v2
    lastMotionDetected, \* v2
    lastConfigFetch,    \* v2, v3.0
    lastServerCheck,    \* v2
    buttonPressed,      \* v2
    buttonPressStart,   \* v2
    currentTime,        \* v2 loop: the local of the trigger branch
    deviceId,           \* v3.0
    serverUrl,          \* v3.0
    wifiSSID,           \* v3.0
    wifiPass,           \* v3.0
    inPortalMode,       \* v3.0
    wifiConnected,      \* v3.0
    lastTrigger,        \* v3.0
    servoDuration,      \* v3.1, ms
    servo1,             \* angle last written to servo 1
    servo2,             \* angle last written to servo 2
    ledOn,              \* the status LED pin is HIGH
    buzzerOn,           \* the buzzer sounds
    startTime,          \* the local of the deterrent function that runs
    pos,                \* waveServos: the local of its for loops
    fbHeld,             \* frame buffers obtained and not yet returned
    capRet,             \* where captureAndUpload returns to
    httpResp,           \* the response the last config GET received
    linkUp,             \* WiFi.status() == WL_CONNECTED
    joinCalls,          \* WiFi.begin calls since boot
    joinPolls,          \* 500 ms polls of the last join attempt
    portalCalls,        \* startCaptivePortal calls since boot
    trig,               \* the last two honored triggers of this boot
    cap,                \* what the last captureAndUpload did
    saved,              \* the last portal submission
    statusLed,          \* v2: StatusLED statusLed
    uploadCount,        \* v2
    lastUploadTime,     \* v2
    detectionCount,     \* v2
    lastDetectionTime,  \* v2
    calls,              \* the calls of the current trigger cycle or /test request
    netOp,              \* the last HTTP request the device issued
    resetPinLow,        \* the reset button is down (PIN_RESET_BUTTON reads LOW)
    hold,               \* since when it is down, and how long it was the last time
    ledTrace,           \* indicator scenario: when the pattern started, when the LED changed
    wait,               \* uploadImage: its wait for the response (since, timeout, outcome)
    served,             \* portal: the last request, its answer and the DNS answer after it
    body                \* uploadImage: the request body announced and written so far

timeVars == <<now, ticks>>
v2Vars == <<config, isConfigMode, isConnected, serverReachable, lastMotionDetected,
            lastServerCheck, buttonPressed, buttonPressStart, currentTime>>
v30Vars == <<deviceId, serverUrl, wifiSSID, wifiPass, inPortalMode, wifiConnected,
             lastTrigger>>
detVars == <<servoDuration, servo1, servo2, ledOn, buzzerOn, startTime, pos>>
obsVars == <<linkUp, joinCalls, joinPolls, portalCalls, trig, cap, saved>>
statVars == <<uploadCount, lastUploadTime, detectionCount, lastDetectionTime>>
envVars == <<resetPinLow, hold, ledTrace, wait, served, body>>
auxVars == <<statusLed, statVars, calls, netOp, envVars>>
vars == <<fw, pc, timeVars, prefs, v2Vars, v30Vars, lastConfigFetch, detVars, fbHeld, capRet,
          httpResp, obsVars, auxVars>>

\* millis()
millis == now
\* a - b and a + b on unsigned long
USub(a, b) == a - b
UAdd(a, b) == a + b
\* a < b, a > b, a >= b on unsigned long: the negative ones are the large ones
ULess(a, b) == IF (a >= 0) = (b >= 0) THEN a < b ELSE a >= 0
UGreater(a, b) == ULess(b, a)
UGeq(a, b) == ~ULess(a, b)

(***************************************************************************)
(* v2: class StatusLED.  The pin is HIGH exactly when ledState is true.    *)
(***************************************************************************)
\* the object as its constructor leaves it
StatusLED ==
    [ledState |-> FALSE, lastUpdate |-> 0, onTime |-> 0, offTime |-> 0, blinkCount |-> -1,
     currentBlinks |-> 0, patternActive |-> FALSE]

\* setPattern(on, off, count) called at time t
setPattern(on, off, count, t) ==
    [ledState |-> TRUE, lastUpdate |-> t, onTime |-> on, offTime |-> off,
     blinkCount |-> count, currentBlinks |-> 0, patternActive |-> TRUE]

\* solid(on), off()
solid(led, on) == [led EXCEPT !.patternActive = FALSE, !.ledState = on]
off(led) == solid(led, FALSE)

\* update() that does not note the time of a change
updateNoStamp(led, t) ==
    LET interval == IF led.ledState THEN led.onTime ELSE led.offTime
        counted == led.ledState /\ led.blinkCount > 0
    IN  IF ~led.patternActive \/ ~UGeq(USub(t, led.lastUpdate), interval) THEN led
        ELSE IF counted /\ led.currentBlinks + 1 >= led.blinkCount
        THEN [led EXCEPT !.currentBlinks = @ + 1,
                         !.patternActive = FALSE, !.ledState = FALSE]
        ELSE [led EXCEPT !.currentBlinks = IF counted THEN @ + 1 ELSE @,
                         !.ledState = ~@]

\* update() that ends a counted pattern one pulse late
updateOneMore(led, t) ==
    LET interval == IF led.ledState THEN led.onTime ELSE led.offTime
        counted == led.ledState /\ led.blinkCount > 0
    IN  IF ~led.patternActive \/ ~UGeq(USub(t, led.lastUpdate), interval) THEN led
        ELSE IF counted /\ led.currentBlinks + 1 > led.blinkCount
        THEN [led EXCEPT !.lastUpdate = t, !.currentBlinks = @ + 1,
                         !.patternActive = FALSE, !.ledState = FALSE]
        ELSE [led EXCEPT !.lastUpdate = t,
                         !.currentBlinks = IF counted THEN @ + 1 ELSE @,
                         !.ledState = ~@]

\* update() called at time t
update(led, t) ==
    LET interval == IF led.ledState THEN led.onTime ELSE led.offTime
        counted == led.ledState /\ led.blinkCount > 0
    IN  IF ~led.patternActive \/ ~UGeq(USub(t, led.lastUpdate), interval) THEN led
        ELSE IF counted /\ led.currentBlinks + 1 >= led.blinkCount
        THEN [led EXCEPT !.lastUpdate = t, !.currentBlinks = @ + 1,
                         !.patternActive = FALSE, !.ledState = FALSE]
        ELSE [led EXCEPT !.lastUpdate = t,
                         !.currentBlinks = IF counted THEN @ + 1 ELSE @,
                         !.ledState = ~@]

\* the pre-defined patterns, started at time t
patternPortal(t) == setPattern(LED_PATTERN_PORTAL_ON, LED_PATTERN_PORTAL_OFF, -1, t)
patternConnecting(t) == setPattern(LED_PATTERN_CONNECT_ON, LED_PATTERN_CONNECT_OFF, -1, t)
patternSuccess(led) == solid(led, TRUE)
patternError(t) ==
    setPattern(LED_PATTERN_ERROR_ON, LED_PATTERN_ERROR_OFF, LED_PATTERN_ERROR_COUNT, t)
patternUpload(t) == setPattern(LED_PATTERN_UPLOAD_ON, LED_PATTERN_UPLOAD_OFF, 3, t)

(***************************************************************************)
(* JSON values of a config response, and ArduinoJson's  variant | default. *)
(***************************************************************************)
JInt(n) == [t |-> "int", i |-> n, s |-> "", b |-> FALSE]
JStr(x) == [t |-> "str", i |-> 0, s |-> x, b |-> FALSE]
JBool(x) == [t |-> "bool", i |-> 0, s |-> "", b |-> x]
\* an integer that does not fit an int
JBig == [t |-> "big", i |-> 0, s |-> "", b |-> FALSE]
NoObject == [k \in {} |-> JInt(0)]

\* cfg[key] | default with the value taken as a change of the default
OrIntAdded(cfg, key, default) ==
    IF key \in DOMAIN cfg /\ cfg[key].t = "int"
    THEN cfg[key].i + default ELSE default
\* cfg[key] | default, default an int: the value when it is an integer that
\* fits an int, else the default
OrInt(cfg, key, default) ==
    IF key \in DOMAIN cfg /\ cfg[key].t = "int"
    THEN cfg[key].i ELSE default
\* cfg[key] | default, default a const char*
OrStr(cfg, key, default) ==
    IF key \in DOMAIN cfg /\ cfg[key].t = "str" THEN cfg[key].s ELSE default
\* cfg[key] | default, default a bool
OrBool(cfg, key, default) ==
    IF key \in DOMAIN cfg /\ cfg[key].t = "bool" THEN cfg[key].b ELSE default

\* Arduino's constrain(x, low, high) without its lower limit
constrainNoLow(x, low, high) == IF x > high THEN high ELSE x
\* Arduino's constrain(x, low, high)
constrain(x, low, high) == IF x < low THEN low ELSE IF x > high THEN high ELSE x

(***************************************************************************)
(* v2: DeviceConfig and loadConfig.                                        *)
(***************************************************************************)
\* loadConfig, the sensor and actuator defaults
ProfileDefaults ==
    [sensorType |-> DEFAULT_SENSOR_TYPE, analogThreshold |-> ANALOG_SENSOR_THRESHOLD,
     cooldownSec |-> DEFAULT_COOLDOWN_SEC, captureDelayMs |-> 500,
     servoSpeed |-> 90, servoAngle |-> 180, servoDuration |-> 3,
     ledPattern |-> "blink", ledSpeedMs |-> 200, ledDurationSec |-> 5,
     soundType |-> "beep", soundVolume |-> 80, soundDurationSec |-> 3,
     autoDeterrent |-> TRUE]

\* the fields of the sensor / actuator profile, and the response key of each
ProfileFields == DOMAIN ProfileDefaults
KeyOf ==
    [sensorType |-> "sensor_type", analogThreshold |-> "analog_threshold",
     cooldownSec |-> "cooldown_sec", captureDelayMs |-> "capture_delay_ms",
     servoSpeed |-> "servo_speed", servoAngle |-> "servo_angle",
     servoDuration |-> "servo_duration", ledPattern |-> "led_pattern",
     ledSpeedMs |-> "led_speed_ms", ledDurationSec |-> "led_duration_sec",
     soundType |-> "sound_type", soundVolume |-> "sound_volume",
     soundDurationSec |-> "sound_duration_sec", autoDeterrent |-> "auto_deterrent"]

\* loadConfig: identity from the store, the profile from the defaults
LoadConfigV2(p) ==
    LET id == strncpy(PrefsGet(p, "deviceId", EmptyStr), DEVICEID_SIZE - 1)
    IN  [deviceId |-> IF strlen(id) = 0 THEN ChipDeviceId ELSE id,
         serverUrl |-> strncpy(PrefsGet(p, "serverUrl", DEFAULT_SERVER_URL), URL_SIZE - 1),
         wifiSSID |-> strncpy(PrefsGet(p, "wifiSSID", EmptyStr), SSID_SIZE - 1),
         wifiPassword |-> strncpy(PrefsGet(p, "wifiPassword", EmptyStr), PASSWORD_SIZE - 1),
         useMdns |-> PrefsGet(p, "useMdns", TRUE)]
        @@ ProfileDefaults

\* saveConfig
SaveConfigV2(p, c) ==
    PrefsPut(PrefsPut(PrefsPut(PrefsPut(PrefsPut(p,
        "deviceId", c.deviceId), "serverUrl", c.serverUrl), "wifiSSID", c.wifiSSID),
        "wifiPassword", c.wifiPassword), "useMdns", c.useMdns)

(***************************************************************************)
(* v2: fetchRemoteConfig.  A response is the HTTP code, whether the body   *)
(* parses as JSON, its "success" member and its "config" object.           *)
(***************************************************************************)
Resp(code, parseOk, success, cfg) ==
    [code |-> code, parseOk |-> parseOk, success |-> success, cfg |-> cfg]
NoResp == Resp(0, FALSE, FALSE, NoObject)

\* the response is applied on 200 and a parsed body, whatever "success" says
AppliedIgnoringSuccess(r) == r.code = 200 /\ r.parseOk
\* the response is applied: 200, parsed, success
Applied(r) == r.code = 200 /\ r.parseOk /\ r.success

\* fetchRemoteConfig, the body of  if (!error && doc["success"])
ApplyRemoteConfig(c, cfg) ==
    [c EXCEPT
       !.cooldownSec = constrain(OrInt(cfg, "cooldown_sec", c.cooldownSec),
                                 MIN_COOLDOWN_SEC, MAX_COOLDOWN_SEC),
       !.captureDelayMs = OrInt(cfg, "capture_delay_ms", c.captureDelayMs),
       !.analogThreshold = OrInt(cfg, "analog_threshold", c.analogThreshold),
       !.sensorType = OrInt(cfg, "sensor_type", c.sensorType),
       !.servoSpeed = OrInt(cfg, "servo_speed", 90),
       !.servoAngle = OrInt(cfg, "servo_angle", 180),
       !.servoDuration = OrInt(cfg, "servo_duration", 3),
       !.ledPattern = OrStr(cfg, "led_pattern", "blink"),
       !.ledSpeedMs = OrInt(cfg, "led_speed_ms", 200),
       !.ledDurationSec = OrInt(cfg, "led_duration_sec", 5),
       !.soundType = OrStr(cfg, "sound_type", "beep"),
       !.soundVolume = OrInt(cfg, "sound_volume", 80),
       !.soundDurationSec = OrInt(cfg, "sound_duration_sec", 3),
       !.autoDeterrent = OrBool(cfg, "auto_deterrent", TRUE)]

\* fetchRemoteConfig: config when it returns
FetchedConfig(c, connected, r) ==
    IF connected /\ Applied(r) THEN ApplyRemoteConfig(c, r.cfg) ELSE c

\* fetchRemoteConfig: serverReachable when it returns
FetchedReachable(reachable, connected, r) ==
    IF connected THEN r.code = 200 ELSE reachable

(***************************************************************************)
(* Config responses the server (or the network) may give.                  *)
(***************************************************************************)
\* values a response may carry for each key: in range, out of range, of the
\* wrong type, too large for an int
ValuesOf ==
    [sensor_type |-> {JInt(0)},
     analog_threshold |-> {JInt(800)},
     cooldown_sec |-> {JInt(0), JInt(120), JInt(100000), JBig, JStr("60")},
     capture_delay_ms |-> {JInt(1000)},
     servo_speed |-> {JInt(45), JInt(0), JInt(500)},
     servo_angle |-> {JInt(90), JInt(270)},
     servo_duration |-> {JInt(10), JInt(0)},
     led_pattern |-> {JStr("strobe"), JStr("rainbow")},
     led_speed_ms |-> {JInt(500), JInt(10)},
     led_duration_sec |-> {JInt(10), JInt(61)},
     sound_type |-> {JStr("siren"), JStr("scream")},
     sound_volume |-> {JInt(50), JInt(101)},
     sound_duration_sec |-> {JInt(5), JInt(-1)},
     auto_deterrent |-> {JBool(FALSE), JInt(0)}]
Keys == DOMAIN ValuesOf

\* every key with a valid value that is not the default
AllInRange ==
    [sensor_type |-> JInt(0), analog_threshold |-> JInt(800), cooldown_sec |-> JInt(120),
     capture_delay_ms |-> JInt(1000), servo_speed |-> JInt(45), servo_angle |-> JInt(90),
     servo_duration |-> JInt(10), led_pattern |-> JStr("strobe"), led_speed_ms |-> JInt(500),
     led_duration_sec |-> JInt(10), sound_type |-> JStr("siren"), sound_volume |-> JInt(50),
     sound_duration_sec |-> JInt(5), auto_deterrent |-> JBool(FALSE)]
Only(k, v) == [x \in {k} |-> v]
AllBut(k) == [x \in Keys \ {k} |-> AllInRange[x]]

ConfigObjects ==
    {NoObject, AllInRange}
    \cup UNION {{Only(k, v) : v \in ValuesOf[k]} : k \in Keys}
    \cup {AllBut(k) : k \in Keys}

\* Applied, Malformed (no JSON, success false or absent) and Unreachable
\* (a code other than 200, negative for a client error) responses
SyncResponses ==
    {Resp(200, TRUE, TRUE, o) : o \in ConfigObjects}
    \cup {Resp(200, TRUE, FALSE, AllInRange), Resp(200, FALSE, FALSE, NoObject),
          Resp(200, FALSE, TRUE, AllInRange),
          Resp(500, TRUE, TRUE, AllInRange), Resp(404, FALSE, FALSE, NoObject),
          Resp(-1, FALSE, FALSE, NoObject)}

Unreachable(r) == r.code /= 200
Malformed(r) == r.code = 200 /\ (~r.parseOk \/ ~r.success)

(***************************************************************************)
(* SpecSync: the v2 firmware in station mode, seen from its config sync:   *)
(* boot defaults, then any sequence of fetchRemoteConfig calls.            *)
(***************************************************************************)
\* the globals as the C++ runtime zero-initialises them (DeviceConfig config)
ZeroConfig ==
    [deviceId |-> EmptyStr, serverUrl |-> EmptyStr, wifiSSID |-> EmptyStr,
     wifiPassword |-> EmptyStr, useMdns |-> FALSE,
     sensorType |-> 0, analogThreshold |-> 0, cooldownSec |-> 0, captureDelayMs |-> 0,
     servoSpeed |-> 0, servoAngle |-> 0, servoDuration |-> 0, ledPattern |-> "",
     ledSpeedMs |-> 0, ledDurationSec |-> 0, soundType |-> "", soundVolume |-> 0,
     soundDurationSec |-> 0, autoDeterrent |-> FALSE]

NoTrigger == [prev |-> -1, prevCooldownMs |-> 0, last |-> -1, cooldownMs |-> 0]
\* the reply to an upload: whether the connection was made, the status code
\* (0 when no byte came back), and whether a line other than the status line
\* holds "200", or any line holds "success"
Reply(connected, status, has200, hasSuccess) ==
    [connected |-> connected, status |-> status, has200 |-> has200,
     hasSuccess |-> hasSuccess]
NoReply == Reply(FALSE, 0, FALSE, FALSE)
NoCapture == [gets |-> 0, returns |-> 0, outcome |-> "none", attempts |-> 0,
              reply |-> NoReply]
NoSave == [kind |-> "none", path |-> "", ssid |-> Absent, password |-> Absent,
           server |-> Absent, mdns |-> FALSE]

\* an HTTP request issued at time t, and whether the link was up
NetOp(kind, t, link) == [kind |-> kind, at |-> t, linkUp |-> link]
NoNetOp == NetOp("none", 0, FALSE)
\* the reset button: down since, and the length of its last hold
NoHold == [since |-> 0, last |-> 0]
\* the button is up and has not been touched
NoLedTrace == [since |-> 0, at |-> <<>>]
\* nothing has been served
NoServed == [kind |-> "none", path |-> "", answer |-> "none", dns |-> "none"]
\* uploadImage has written nothing
NoBody == [len |-> 0, boundary |-> 0, contentLength |-> 0, sent |-> 0, i |-> 0,
           writes |-> <<>>]
\* uploadImage is not waiting for a response
NoWait == [since |-> 0, timeout |-> 0, outcome |-> "none"]
\* nobody at the button, nobody watching the LED
ButtonUp ==
    /\ resetPinLow = FALSE /\ hold = NoHold /\ ledTrace = NoLedTrace /\ wait = NoWait
    /\ served = NoServed /\ body = NoBody

\* the device right after a reset: the globals at their initial values, the
\* clock at 0; the store is not part of it
Idle ==
    /\ now = 0 /\ ticks = 0
    /\ isConfigMode = FALSE /\ isConnected = FALSE
    /\ serverReachable = FALSE
    /\ lastMotionDetected = 0 /\ lastConfigFetch = 0 /\ lastServerCheck = 0
    /\ buttonPressed = FALSE /\ buttonPressStart = 0 /\ currentTime = 0
    /\ deviceId = EmptyStr /\ serverUrl = EmptyStr /\ wifiSSID = EmptyStr
    /\ wifiPass = EmptyStr /\ inPortalMode = FALSE /\ wifiConnected = FALSE
    /\ lastTrigger = 0
    /\ servoDuration = DEFAULT_SERVO_DURATION
    /\ servo1 = 90 /\ servo2 = 90 /\ ledOn = FALSE /\ buzzerOn = FALSE
    /\ startTime = 0 /\ pos = 0
    /\ fbHeld = 0 /\ capRet = "none" /\ httpResp = NoResp
    /\ linkUp = FALSE /\ joinCalls = 0 /\ joinPolls = 0 /\ portalCalls = 0
    /\ trig = NoTrigger /\ cap = NoCapture /\ saved = NoSave
    /\ statusLed = StatusLED
    /\ uploadCount = 0 /\ lastUploadTime = 0 /\ detectionCount = 0 /\ lastDetectionTime = 0
    /\ calls = <<>> /\ netOp = NoNetOp

InitSync ==
    /\ fw = "v2"
    /\ pc = "loop"
    /\ now = 0 /\ ticks = 0
    /\ prefs = NoPrefs
    /\ config = LoadConfigV2(NoPrefs)
    /\ isConfigMode \in BOOLEAN /\ isConnected \in BOOLEAN
    /\ ~(isConfigMode /\ isConnected)
    /\ serverReachable = FALSE
    /\ lastMotionDetected = 0 /\ lastConfigFetch = 0 /\ lastServerCheck = 0
    /\ buttonPressed = FALSE /\ buttonPressStart = 0 /\ currentTime = 0
    /\ deviceId = EmptyStr /\ serverUrl = EmptyStr /\ wifiSSID = EmptyStr
    /\ wifiPass = EmptyStr /\ inPortalMode = FALSE /\ wifiConnected = FALSE
    /\ lastTrigger = 0
    /\ servoDuration = DEFAULT_SERVO_DURATION
    /\ servo1 = 90 /\ servo2 = 90 /\ ledOn = FALSE /\ buzzerOn = FALSE
    /\ startTime = 0 /\ pos = 0
    /\ fbHeld = 0 /\ capRet = "none" /\ httpResp = NoResp
    /\ linkUp = isConnected /\ joinCalls = 0 /\ joinPolls = 0 /\ portalCalls = 0
    /\ trig = NoTrigger /\ cap = NoCapture /\ saved = NoSave
    /\ statusLed = StatusLED
    /\ uploadCount = 0 /\ lastUploadTime = 0 /\ detectionCount = 0 /\ lastDetectionTime = 0
    /\ calls = <<>> /\ netOp = NoNetOp
    /\ ButtonUp

\* fetchRemoteConfig without its first line
RequestedAlways(connected) == TRUE
\* fetchRemoteConfig: if (!isConnected) return; the GET is issued or not
Requested(connected) == connected

\* fetchRemoteConfig, called with the response r of its GET
FetchRemoteConfig(r) ==
    /\ pc = "loop"
    /\ config' = FetchedConfig(config, isConnected, r)
    /\ serverReachable' = FetchedReachable(serverReachable, isConnected, r)
    /\ httpResp' = IF Requested(isConnected) THEN r ELSE httpResp
    /\ netOp' = IF Requested(isConnected) THEN NetOp("fetch", millis, linkUp) ELSE netOp
    /\ pc' = "fetched"
    /\ UNCHANGED <<fw, statusLed, statVars, calls, envVars, detVars, timeVars, prefs, isConfigMode, isConnected, lastMotionDetected,
                   lastServerCheck, buttonPressed, buttonPressStart, currentTime,
                   v30Vars, lastConfigFetch, fbHeld, capRet, obsVars>>

\* the caller goes on
FetchReturn ==
    /\ pc = "fetched"
    /\ pc' = "loop"
    /\ UNCHANGED <<fw, auxVars, detVars, timeVars, prefs, v2Vars, v30Vars, lastConfigFetch, fbHeld,
                   capRet, httpResp, obsVars>>

NextSync == (\E r \in SyncResponses : FetchRemoteConfig(r)) \/ FetchReturn

SpecSync == InitSync /\ [][NextSync]_vars

(***************************************************************************)
(* Config sync: the claims.                                                *)
(***************************************************************************)
\* a fetchRemoteConfig call that got a response: the step from "loop" to "fetched"
SyncStep == pc = "loop" /\ pc' = "fetched" /\ isConnected

\* C3: in every reachable state of the v2 firmware, whatever cooldown_sec the
\* responses carried (absent, zero, negative, huge, of the wrong type),
\* config.cooldownSec lies in [MIN_COOLDOWN_SEC, MAX_COOLDOWN_SEC].
CooldownClamped ==
    fw = "v2" => config.cooldownSec \in MIN_COOLDOWN_SEC .. MAX_COOLDOWN_SEC

\* C3 witness: a response asking for a cooldown of 0 has been applied.
CooldownClampedWitness ==
    /\ pc = "fetched" /\ isConnected /\ Applied(httpResp)
    /\ "cooldown_sec" \in DOMAIN httpResp.cfg
    /\ httpResp.cfg["cooldown_sec"] = JInt(0)
    /\ config.cooldownSec = MIN_COOLDOWN_SEC

\* C4 (as claimed): a successful response that omits the key of field f leaves
\* f as it was, and a response that holds only the key of f changes no other
\* field.
MergeNotReplace ==
    [][(SyncStep /\ Applied(httpResp')) =>
         \A f \in ProfileFields :
            /\ KeyOf[f] \notin DOMAIN httpResp'.cfg => config'[f] = config[f]
            /\ DOMAIN httpResp'.cfg = {KeyOf[f]} =>
                  \A g \in ProfileFields \ {f} : config'[g] = config[g]]_vars

\* C5: a sync that ends Unreachable (code other than 200) or Malformed (no
\* JSON, success false or absent) leaves every field of the in-memory
\* profile as it was, and fetchRemoteConfig returns to its caller.
FailedSyncKeepsProfile ==
    [][(pc = "loop" /\ isConnected /\ pc' /= "loop"
        /\ (Unreachable(httpResp') \/ Malformed(httpResp'))) =>
         /\ \A f \in ProfileFields : config'[f] = config[f]
         /\ pc' = "fetched"]_vars

\* C5 witness: a response with success false has come back while the profile
\* held values other than the defaults, and they are still there.
FailedSyncKeepsProfileWitness ==
    /\ pc = "fetched" /\ isConnected
    /\ Malformed(httpResp) /\ httpResp.parseOk /\ DOMAIN httpResp.cfg = Keys
    /\ config.servoSpeed = 45 /\ config.servoSpeed /= ProfileDefaults.servoSpeed
    /\ config.cooldownSec = 120

\* C6 (as claimed): every field of the in-memory actuator profile is within
\* its documented range in every reachable state.
ActuatorProfileInRange ==
    fw = "v2" =>
        /\ config.servoSpeed \in 1 .. 180
        /\ config.servoAngle \in 0 .. 180
        /\ config.servoDuration \in 1 .. 30
        /\ config.ledSpeedMs \in 50 .. 2000
        /\ config.ledDurationSec \in 1 .. 60
        /\ config.soundVolume \in 0 .. 100
        /\ config.soundDurationSec \in 1 .. 30
        /\ config.ledPattern \in {"solid", "blink", "strobe", "fade"}
        /\ config.soundType \in {"beep", "siren", "chirp"}

(***************************************************************************)
(* Spec: a device from power-on.  setup() is one step; an iteration of     *)
(* loop() is a chain of steps, one per call that reads an input.           *)
(***************************************************************************)
\* time steps of EndOfLoop: the delay(100), or a stretch of the blocking
\* calls of the iteration
Steps == {100, 60000}

\* the 500 ms polls after which WiFi.status() reads WL_CONNECTED, the last
\* value standing for never
JoinTimes(polls) == {0, polls, polls + 1}

\* config responses of the server in the device's life
Responses ==
    {Resp(200, TRUE, TRUE, NoObject),
     Resp(200, TRUE, TRUE, Only("cooldown_sec", JInt(120))),
     Resp(200, TRUE, TRUE, Only("sensor_type", JInt(0))),
     Resp(-1, FALSE, FALSE, NoObject)}

\* requests to the device's web server
Request(kind, path, ssid, password, server, mdns) ==
    [kind |-> kind, path |-> path, ssid |-> ssid, password |-> password,
     server |-> server, mdns |-> mdns]
NoRequest == Request("none", "", Absent, Absent, Absent, FALSE)
Get(path) == Request("get", path, Absent, Absent, Absent, FALSE)
\* POST /save with its form arguments
Save(ssid, password, server, mdns) == Request("save", "/save", ssid, password, server, mdns)
Requests ==
    {NoRequest, Get("/"), Get("/test"), Get("/reset"),
     Save(Str(4, 8), Str(5, 10), Str(6, 24), TRUE),
     Save(Str(4, 8), Absent, EmptyStr, FALSE),
     Save(EmptyStr, Str(5, 10), Str(6, 24), FALSE),
     Save(Absent, Absent, Absent, FALSE),
     Save(Str(4, 70), Str(5, 70), Str(6, 130), FALSE)}
\* server.arg(name): the empty string when the argument is not there
ArgOf(a) == IF a = Absent THEN EmptyStr ELSE a

\* sensor pin: the digital level and the ADC value
AnalogReadings == {0, SENSOR_THRESHOLD, ANALOG_SENSOR_THRESHOLD}

\* replies to an upload attempt: 200, 500, no connection, no answer
UploadReplies ==
    {Reply(TRUE, 200, FALSE, FALSE), Reply(TRUE, 500, FALSE, FALSE),
     Reply(FALSE, 0, FALSE, FALSE), Reply(TRUE, 0, FALSE, FALSE)}

Init ==
    /\ fw \in {"v2", "v30"}
    /\ pc = "boot"
    /\ prefs = NoPrefs
    /\ config = ZeroConfig
    /\ Idle
    /\ ButtonUp

\* ESP.restart(): the globals are initialised again, the store stays
Restart ==
    /\ pc = "restart"
    /\ pc' = "boot"
    /\ now' = 0 /\ ticks' = 0
    /\ config' = ZeroConfig
    /\ isConfigMode' = FALSE /\ isConnected' = FALSE
    /\ serverReachable' = FALSE
    /\ lastMotionDetected' = 0 /\ lastConfigFetch' = 0 /\ lastServerCheck' = 0
    /\ buttonPressed' = FALSE /\ buttonPressStart' = 0 /\ currentTime' = 0
    /\ deviceId' = EmptyStr /\ serverUrl' = EmptyStr /\ wifiSSID' = EmptyStr
    /\ wifiPass' = EmptyStr /\ inPortalMode' = FALSE /\ wifiConnected' = FALSE
    /\ lastTrigger' = 0
    /\ fbHeld' = 0 /\ capRet' = "none" /\ httpResp' = NoResp
    /\ linkUp' = FALSE /\ joinCalls' = 0 /\ joinPolls' = 0 /\ portalCalls' = 0
    /\ trig' = NoTrigger /\ cap' = NoCapture /\ saved' = NoSave
    /\ statusLed' = StatusLED
    /\ uploadCount' = 0 /\ lastUploadTime' = 0 /\ detectionCount' = 0
    /\ lastDetectionTime' = 0
    /\ calls' = <<>> /\ netOp' = NoNetOp
    /\ hold' = [hold EXCEPT !.since = 0]
    /\ servoDuration' = DEFAULT_SERVO_DURATION
    /\ servo1' = 90 /\ servo2' = 90 /\ ledOn' = FALSE /\ buzzerOn' = FALSE
    /\ startTime' = 0 /\ pos' = 0
    /\ UNCHANGED <<fw, prefs, resetPinLow, ledTrace, wait, served, body>>

(***************************************************************************)
(* v2: setup.                                                              *)
(***************************************************************************)
\* setup: credentials exist
HasCredentialsAlways(ssid) == TRUE
HasCredentials(ssid) == strlen(ssid) > 0

\* connectToWiFi / the join loop of setup (v3.0): the polls made when the
\* link comes up after upAt polls, and the result
PollsMade(upAt, polls) == Min(upAt, polls)
WiFiJoinedAlways(upAt, polls) == TRUE
WiFiJoined(upAt, polls) == upAt <= polls

\* connectToWiFi: the status LED after n polls of 500 ms, the first delay
\* starting at time t
\* (the test of polled makes TLC compute each poll before the next one)
RECURSIVE Polled(_, _, _)
Polled(led, t, n) ==
    IF n = 0 THEN led
    ELSE LET polled == update(led, UAdd(t, 500))
         IN  IF polled = polled THEN Polled(polled, UAdd(t, 500), n - 1) ELSE led
\* setup: the status LED when connectToWiFi returns after n polls, setup
\* having started at time 0
JoinedLed == [n \in 0 .. WIFI_POLLS_V2 |-> Polled(patternConnecting(4000), 4100, n)]

\* resolveServerMdns: config when it returns
ResolvedConfig(c, found) == IF found THEN [c EXCEPT !.serverUrl = MdnsServerUrl] ELSE c

\* setup() of v2, with the level of the reset button, the time the link takes,
\* the answer of the mDNS query and the response to the initial config GET
Setup(buttonLow, upAt, mdnsFound, r) ==
    LET c0 == LoadConfigV2(prefs)
        ok == WiFiJoined(upAt, WIFI_POLLS_V2)
        polls == PollsMade(upAt, WIFI_POLLS_V2)
        c1 == IF c0.useMdns THEN ResolvedConfig(c0, mdnsFound) ELSE c0
        \* the times of the second patternConnecting and of the return of
        \* connectToWiFi
        t1 == UAdd(now, 4000)
        t2 == UAdd(t1, 100 + 500 * polls)
        joined == JoinedLed[polls]
    IN
    /\ fw = "v2" /\ pc = "boot"
    /\ IF buttonLow
       THEN \* reset button held at boot: clearConfig, ESP.restart
            /\ pc' = "restart"
            /\ prefs' = PrefsClear(prefs)
            /\ config' = c0
            /\ now' = UAdd(now, 4000)
            /\ statusLed' = patternError(UAdd(now, 2000))
            /\ UNCHANGED <<isConfigMode, isConnected, serverReachable, httpResp,
                           linkUp, joinCalls, joinPolls, portalCalls, netOp>>
       ELSE IF HasCredentials(c0.wifiSSID)
       THEN /\ joinCalls' = joinCalls + 1
            /\ joinPolls' = polls
            /\ linkUp' = (upAt <= WIFI_POLLS_V2)
            /\ IF ok
               THEN \* station mode
                    /\ isConnected' = TRUE
                    /\ config' = FetchedConfig(c1, TRUE, r)
                    /\ serverReachable' = FetchedReachable(c0.useMdns /\ mdnsFound, TRUE, r)
                    /\ httpResp' = r
                    /\ netOp' = NetOp("fetch", t2, TRUE)
                    /\ now' = UAdd(now, 4000 + 100 + 500 * polls + 2000)
                    /\ statusLed' = off(patternSuccess(joined))
                    /\ UNCHANGED <<isConfigMode, portalCalls>>
               ELSE \* startCaptivePortal
                    /\ isConfigMode' = TRUE
                    /\ portalCalls' = portalCalls + 1
                    /\ config' = c0
                    /\ now' = UAdd(now, 4000 + 100 + 500 * polls + 2000 + 800)
                    /\ statusLed' = patternPortal(UAdd(t2, 2000))
                    /\ UNCHANGED <<isConnected, serverReachable, httpResp, netOp>>
            /\ pc' = "loop"
            /\ UNCHANGED prefs
       ELSE \* no credentials: startCaptivePortal
            /\ isConfigMode' = TRUE
            /\ portalCalls' = portalCalls + 1
            /\ config' = c0
            /\ now' = UAdd(now, 4000 + 800)
            /\ statusLed' = patternPortal(t1)
            /\ pc' = "loop"
            /\ UNCHANGED <<prefs, isConnected, serverReachable, httpResp,
                           linkUp, joinCalls, joinPolls, netOp>>
    /\ UNCHANGED <<fw, statVars, calls, envVars, detVars, ticks, lastMotionDetected, lastServerCheck, buttonPressed,
                   buttonPressStart, currentTime, v30Vars, lastConfigFetch, fbHeld,
                   capRet, trig, cap, saved>>

(***************************************************************************)
(* v2: loop.                                                               *)
(***************************************************************************)
\* loop up to server.handleClient(): statusLed.update() and
\* checkResetButton, with the level of the button
CheckResetButton(buttonLow) ==
    /\ fw = "v2" /\ pc = "loop"
    /\ IF buttonLow /\ buttonPressed
          /\ UGreater(USub(millis, buttonPressStart), RESET_BUTTON_HOLD_TIME)
       THEN \* held long enough: clearConfig, ESP.restart
            /\ prefs' = PrefsClear(prefs)
            /\ now' = UAdd(now, 1000)
            /\ statusLed' = patternError(millis)
            /\ pc' = "restart"
            /\ UNCHANGED <<buttonPressed, buttonPressStart>>
       ELSE /\ buttonPressed' = buttonLow
            /\ statusLed' = update(statusLed, millis)
            /\ buttonPressStart' = IF buttonLow /\ ~buttonPressed THEN millis
                                   ELSE buttonPressStart
            /\ pc' = "client"
            /\ UNCHANGED <<prefs, now>>
    /\ UNCHANGED <<fw, statVars, calls, netOp, envVars, detVars, ticks, config, isConfigMode,
                   isConnected, serverReachable,
                   lastMotionDetected, lastServerCheck, currentTime, v30Vars,
                   lastConfigFetch, fbHeld, capRet, httpResp, obsVars>>

\* handlePortalSave: config when saveConfig is called
PortalSavedConfig(c, req) ==
    [c EXCEPT
       !.wifiSSID = IF req.ssid /= Absent /\ strlen(req.ssid) > 0
                    THEN strncpy(req.ssid, SSID_SIZE - 1) ELSE @,
       !.wifiPassword = IF req.password /= Absent
                        THEN strncpy(req.password, PASSWORD_SIZE - 1) ELSE @,
       !.serverUrl = IF req.server /= Absent
                     THEN strncpy(req.server, URL_SIZE - 1) ELSE @,
       !.useMdns = req.mdns]

\* loop after server.handleClient() without the return of portal mode
AfterHandleClientNoReturn(portal) == "sensor"
\* loop after server.handleClient(): in portal mode the DNS responder is
\* served and loop returns, else the sensor is read
AfterHandleClient(portal) == IF portal THEN "tick" ELSE "sensor"

\* server.handleClient() and the "if (isConfigMode) return", with the request
\* that is waiting: what the handler does to the device
ClientRequest(req) ==
    /\ fw = "v2" /\ pc = "client"
    /\ IF isConfigMode /\ req.kind = "save"
       THEN \* handlePortalSave
            /\ config' = PortalSavedConfig(config, req)
            /\ prefs' = SaveConfigV2(prefs, PortalSavedConfig(config, req))
            /\ saved' = req
            /\ now' = UAdd(now, 2000)
            /\ pc' = "restart"
            /\ UNCHANGED <<capRet, calls>>
       ELSE IF ~isConfigMode /\ req = Get("/reset")
       THEN \* handleResetConfig
            /\ prefs' = PrefsClear(prefs)
            /\ now' = UAdd(now, 1000)
            /\ pc' = "restart"
            /\ UNCHANGED <<config, saved, capRet, calls>>
       ELSE IF ~isConfigMode /\ req = Get("/test")
       THEN \* handleTestCapture
            /\ pc' = "capture"
            /\ capRet' = "client"
            /\ calls' = <<>>
            /\ UNCHANGED <<config, prefs, saved, now>>
       ELSE \* a page, a redirect or a 404
            /\ pc' = AfterHandleClient(isConfigMode)
            /\ UNCHANGED <<config, prefs, saved, now, capRet, calls>>
    /\ UNCHANGED <<fw, statusLed, statVars, netOp, resetPinLow, hold, ledTrace, wait, body, detVars,
                   ticks, isConfigMode, isConnected, serverReachable,
                   lastMotionDetected, lastServerCheck, buttonPressed, buttonPressStart,
                   currentTime, v30Vars, lastConfigFetch, fbHeld, httpResp,
                   linkUp, joinCalls, joinPolls, portalCalls, trig, cap>>

\* the same, the answer not looked at
HandleClient(req) == ClientRequest(req) /\ UNCHANGED served

\* loop: motionDetected, from the digital level and the ADC value of the pin
MotionDetected(c, high, analogValue) ==
    IF c.sensorType = 0 THEN high ELSE analogValue >= c.analogThreshold

\* (unsigned long)config.cooldownSec * 1000UL
CooldownMs(c) == c.cooldownSec * 1000

\* the guard of the periodic fetch, were it to let the fetch go at the interval
IntervalReached(t, last) == UGeq(USub(t, last), CONFIG_FETCH_INTERVAL)
\* loop: millis() - lastConfigFetch > configFetchInterval (30000 in v2,
\* CONFIG_FETCH_INTERVAL in v3.0 and v3.1)
IntervalElapsed(t, last) == UGreater(USub(t, last), CONFIG_FETCH_INTERVAL)

\* the trigger guard as a comparison of the clock with an end time
CooldownElapsedAbsolute(t, last, cooldownMs) == UGreater(t, UAdd(last, cooldownMs))
\* the trigger guard with the default cooldown in place of the configured one
CooldownElapsedDefault(t, last, cooldownMs) ==
    UGreater(USub(t, last), DEFAULT_COOLDOWN_SEC * 1000)
\* loop: t - last > cooldownMs
CooldownElapsed(t, last, cooldownMs) == UGreater(USub(t, last), cooldownMs)

\* the record of the honored triggers after one at time t under cooldown cd
Honored(tr, t, cd) ==
    [prev |-> tr.last, prevCooldownMs |-> tr.cooldownMs, last |-> t, cooldownMs |-> cd]

\* loop: the sensor is read and the trigger branch is entered or not
SensorPoll(high, analogValue) ==
    /\ fw = "v2" /\ pc = "sensor"
    /\ IF MotionDetected(config, high, analogValue)
          /\ CooldownElapsed(millis, lastMotionDetected, CooldownMs(config))
       THEN /\ currentTime' = millis
            /\ detectionCount' = detectionCount + 1
            /\ lastDetectionTime' = millis
            /\ trig' = Honored(trig, millis, CooldownMs(config))
            /\ calls' = <<>>
            /\ now' = UAdd(now, config.captureDelayMs)
            /\ capRet' = "trigger"
            /\ pc' = "capture"
       ELSE /\ pc' = "periodic"
            /\ UNCHANGED <<currentTime, trig, now, capRet, detectionCount,
                           lastDetectionTime, calls>>
    /\ UNCHANGED <<fw, statusLed, uploadCount, lastUploadTime, netOp, envVars, detVars, ticks, prefs, config, isConfigMode, isConnected, serverReachable,
                   lastMotionDetected, lastServerCheck, buttonPressed, buttonPressStart,
                   v30Vars, lastConfigFetch, fbHeld, httpResp,
                   linkUp, joinCalls, joinPolls, portalCalls, cap, saved>>

\* captureAndUpload followed by the deterrent whoever called it
DeterrentAfterCapture(ret) == "deterrent"
\* where control goes when captureAndUpload returns
AfterCaptureAndUpload(ret) == IF ret = "trigger" THEN "deterrent" ELSE "sensor"

\* captureAndUpload up to esp_camera_fb_get, which gives a frame or NULL
CaptureBegin(fbOk) ==
    /\ fw = "v2" /\ pc = "capture"
    /\ calls' = Append(calls, "capture")
    /\ IF fbOk
       THEN /\ fbHeld' = fbHeld + 1
            /\ cap' = [NoCapture EXCEPT !.gets = 1]
            /\ statusLed' = patternUpload(millis)
            /\ pc' = "upload"
       ELSE /\ cap' = [NoCapture EXCEPT !.outcome = "capture_failed"]
            /\ statusLed' = patternError(millis)
            /\ pc' = AfterCaptureAndUpload(capRet)
            /\ UNCHANGED fbHeld
    /\ UNCHANGED <<fw, statVars, netOp, envVars, detVars, timeVars, prefs, v2Vars, v30Vars, lastConfigFetch, capRet,
                   httpResp, linkUp, joinCalls, joinPolls, portalCalls, trig, saved>>

\* esp_camera_fb_return calls after an upload that ended with outcome, were the
\* early returns of uploadImage to leave captureAndUpload as well
ReleasedUnlessEarlyReturn(outcome) ==
    IF outcome \in {"connect_failed", "timeout"} THEN 0 ELSE 1
\* esp_camera_fb_return calls of captureAndUpload after the upload
Released(outcome) == 1

\* uploadImage, bool success: some line of the response holds "200" or
\* "success"
UploadAccepted(rp) == rp.status = 200 \/ rp.has200 \/ rp.hasSuccess
\* captureAndUpload of v3.0: code == 200
UploadAcceptedV30(rp) == rp.status = 200
\* how an upload that got reply rp ended
UploadOutcome(rp, accepted) ==
    IF ~rp.connected THEN "connect_failed"
    ELSE IF rp.status = 0 THEN "timeout"
    ELSE IF accepted THEN "ok" ELSE "rejected"

\* uploadImage: the status LED when it returns at time t
UploadedLed(led, outcome, t) ==
    IF outcome \in {"connect_failed", "timeout"} THEN patternError(t) ELSE led

\* uploadImage: serverReachable when it returns
UploadedReachable(reachable, outcome) ==
    IF outcome = "ok" THEN TRUE
    ELSE IF outcome = "connect_failed" THEN FALSE
    ELSE reachable

\* captureAndUpload from "if (isConnected)" to its end, with the reply to
\* the upload if one is made
CaptureUpload(rp) ==
    LET outcome == UploadOutcome(rp, UploadAccepted(rp)) IN
    /\ fw = "v2" /\ pc = "upload"
    /\ serverReachable' = IF isConnected THEN UploadedReachable(serverReachable, outcome)
                          ELSE serverReachable
    /\ uploadCount' = IF isConnected /\ outcome = "ok" THEN uploadCount + 1 ELSE uploadCount
    /\ lastUploadTime' = IF isConnected /\ outcome = "ok" THEN millis ELSE lastUploadTime
    /\ fbHeld' = fbHeld - Released(outcome)
    /\ cap' = [gets |-> cap.gets, returns |-> cap.returns + Released(outcome),
               outcome |-> IF isConnected THEN outcome ELSE "not_connected",
               attempts |-> IF isConnected THEN cap.attempts + 1 ELSE cap.attempts,
               reply |-> IF isConnected THEN rp ELSE cap.reply]
    /\ calls' = IF isConnected THEN Append(calls, "upload") ELSE calls
    /\ netOp' = IF isConnected THEN NetOp("upload", millis, linkUp) ELSE netOp
    /\ now' = IF isConnected /\ outcome = "timeout" THEN UAdd(now, 10100) ELSE now
    /\ statusLed' = off(IF isConnected THEN UploadedLed(statusLed, outcome, now')
                        ELSE statusLed)
    /\ pc' = AfterCaptureAndUpload(capRet)
    /\ UNCHANGED <<fw, detectionCount, lastDetectionTime, envVars, detVars, ticks, prefs, config, isConfigMode, isConnected,
                   lastMotionDetected, lastServerCheck, buttonPressed, buttonPressStart,
                   currentTime, v30Vars, lastConfigFetch, capRet, httpResp,
                   linkUp, joinCalls, joinPolls, portalCalls, trig, saved>>

\* activateDeterrent: the time its three phases are configured to take
\* (SpecDeterrent goes through the run step by step)
DeterrentMs(c) == (c.servoDuration + c.ledDurationSec + c.soundDurationSec) * 1000

\* flashLED: the status LED when it returns
FlashedLed(led, c) ==
    IF c.ledPattern = "solid" \/ c.ledDurationSec /= 0 THEN off(led) ELSE led

\* the trigger branch with the deterrent called whatever the profile says
DeterrentRunsAlways(c) == TRUE
\* the trigger branch: if (config.autoDeterrent)
DeterrentRuns(c) == c.autoDeterrent

\* the trigger branch after captureAndUpload
AfterCapture ==
    /\ fw = "v2" /\ pc = "deterrent"
    /\ now' = IF DeterrentRuns(config) THEN UAdd(now, DeterrentMs(config)) ELSE now
    /\ calls' = IF DeterrentRuns(config) THEN Append(calls, "deterrent") ELSE calls
    /\ statusLed' = IF DeterrentRuns(config) THEN FlashedLed(statusLed, config) ELSE statusLed
    /\ lastMotionDetected' = currentTime
    /\ pc' = "periodic"
    /\ UNCHANGED <<fw, statVars, netOp, envVars, detVars, ticks, prefs, config, isConfigMode, isConnected, serverReachable,
                   lastServerCheck, buttonPressed, buttonPressStart, currentTime,
                   v30Vars, lastConfigFetch, fbHeld, capRet, httpResp, obsVars>>

\* loop: the periodic config fetch and server check, with the responses to
\* their GETs
Periodic(r, code) ==
    LET fetch == isConnected /\ IntervalElapsed(millis, lastConfigFetch)
        check == isConnected /\ UGreater(USub(millis, lastServerCheck), 60000)
    IN
    /\ fw = "v2" /\ pc = "periodic"
    /\ config' = IF fetch THEN FetchedConfig(config, isConnected, r) ELSE config
    /\ httpResp' = IF fetch THEN r ELSE httpResp
    /\ lastConfigFetch' = IF fetch THEN millis ELSE lastConfigFetch
    /\ serverReachable' =
          IF check THEN code = 200
          ELSE IF fetch THEN FetchedReachable(serverReachable, isConnected, r)
          ELSE serverReachable
    /\ lastServerCheck' = IF check THEN millis ELSE lastServerCheck
    /\ netOp' = IF check THEN NetOp("check", millis, linkUp)
              ELSE IF fetch THEN NetOp("fetch", millis, linkUp) ELSE netOp
    /\ statusLed' = IF check /\ code /= 200 THEN patternError(millis) ELSE statusLed
    /\ pc' = "tick"
    /\ UNCHANGED <<fw, statVars, calls, envVars, detVars, timeVars, prefs, isConfigMode, isConnected, lastMotionDetected,
                   buttonPressed, buttonPressStart, currentTime, v30Vars, fbHeld,
                   capRet, obsVars>>

\* the end of an iteration of loop: d ms go by
EndOfLoop(d) ==
    /\ pc = "tick"
    /\ ticks < MaxTicks
    /\ now' = UAdd(now, d)
    /\ ticks' = ticks + 1
    /\ pc' = "loop"
    /\ UNCHANGED <<fw, auxVars, detVars, prefs, v2Vars, v30Vars, lastConfigFetch, fbHeld, capRet,
                   httpResp, obsVars>>

(***************************************************************************)
(* v3.0: setup and loop.                                                   *)
(***************************************************************************)
\* setup of v3.0 with the portal started whether or not the join succeeded
PortalStartedAlways(connected) == TRUE
\* setup of v3.0: if (!wifiConnected) startCaptivePortal()
PortalStarted(connected) == ~connected

\* loadConfig of v3.0: the store when it returns (a generated device id is
\* written back)
LoadedPrefsV30(p) ==
    IF strlen(PrefsGet(p, "deviceId", EmptyStr)) = 0
    THEN PrefsPut(p, "deviceId", ChipDeviceId) ELSE p

\* saveConfig of v3.0 without the password
SaveConfigV30NoPass(p, url, ssid, pass) ==
    PrefsPut(PrefsPut(p, "serverUrl", url), "wifiSSID", ssid)
\* saveConfig of v3.0
SaveConfigV30(p, url, ssid, pass) ==
    PrefsPut(PrefsPut(PrefsPut(p, "serverUrl", url), "wifiSSID", ssid), "wifiPass", pass)

\* setup() of v3.0, with the time the link takes
SetupV30(upAt) ==
    LET p1 == LoadedPrefsV30(prefs)
        ssid == PrefsGet(p1, "wifiSSID", EmptyStr)
        ok == WiFiJoined(upAt, WIFI_POLLS_V30)
        polls == PollsMade(upAt, WIFI_POLLS_V30)
    IN
    /\ fw = "v30" /\ pc = "boot"
    /\ prefs' = p1
    /\ deviceId' = PrefsGet(p1, "deviceId", EmptyStr)
    /\ serverUrl' = PrefsGet(p1, "serverUrl", DEFAULT_SERVER_URL)
    /\ wifiSSID' = ssid
    /\ wifiPass' = PrefsGet(p1, "wifiPass", EmptyStr)
    /\ IF HasCredentials(ssid)
       THEN /\ joinCalls' = joinCalls + 1
            /\ joinPolls' = polls
            /\ linkUp' = (upAt <= WIFI_POLLS_V30)
            /\ wifiConnected' = ok
            /\ inPortalMode' = PortalStarted(ok)
            /\ portalCalls' = IF PortalStarted(ok) THEN portalCalls + 1 ELSE portalCalls
            /\ now' = UAdd(now, 1000 + 600 + 500 * polls + (IF ok THEN 1000 ELSE 700))
       ELSE /\ inPortalMode' = TRUE
            /\ portalCalls' = portalCalls + 1
            /\ now' = UAdd(now, 1000 + 700)
            /\ UNCHANGED <<joinCalls, joinPolls, linkUp, wifiConnected>>
    /\ pc' = "loop"
    /\ UNCHANGED <<fw, auxVars, detVars, ticks, v2Vars, lastTrigger, lastConfigFetch, fbHeld, capRet,
                   httpResp, trig, cap, saved>>

\* a test that takes an ssid argument without looking at its length
HasSsidArg(req) == req.ssid /= Absent
\* handleSave of v3.0: server.hasArg("ssid") && server.arg("ssid").length() > 0
HasSsid(req) == req.ssid /= Absent /\ strlen(req.ssid) > 0

\* server.handleClient() and the "if (inPortalMode) return" of v3.0, with the
\* request that is waiting; the routes exist in portal mode only
ClientRequestV30(req) ==
    /\ fw = "v30" /\ pc = "loop"
    /\ IF inPortalMode /\ req.kind = "save"
       THEN \* handleSave
            /\ saved' = req
            /\ IF HasSsid(req)
               THEN /\ wifiSSID' = req.ssid
                    /\ wifiPass' = ArgOf(req.password)
                    /\ serverUrl' = ArgOf(req.server)
                    /\ prefs' = SaveConfigV30(prefs, ArgOf(req.server), req.ssid,
                                              ArgOf(req.password))
                    /\ now' = UAdd(now, 3000)
                    /\ pc' = "restart"
               ELSE \* 400 Missing SSID
                    /\ pc' = "tick"
                    /\ UNCHANGED <<wifiSSID, wifiPass, serverUrl, prefs, now>>
       ELSE IF inPortalMode /\ req = Get("/reset")
       THEN \* handleReset, clearConfig
            /\ prefs' = PrefsClear(prefs)
            /\ now' = UAdd(now, 2000)
            /\ pc' = "restart"
            /\ UNCHANGED <<wifiSSID, wifiPass, serverUrl, saved>>
       ELSE /\ pc' = AfterHandleClient(inPortalMode)
            /\ UNCHANGED <<wifiSSID, wifiPass, serverUrl, prefs, now, saved>>
    /\ UNCHANGED <<fw, statusLed, statVars, calls, netOp, resetPinLow, hold, ledTrace, wait, body,
                   detVars, ticks, v2Vars, deviceId, inPortalMode, wifiConnected, lastTrigger,
                   lastConfigFetch, fbHeld, capRet, httpResp,
                   linkUp, joinCalls, joinPolls, portalCalls, trig, cap>>

\* the same, the answer not looked at
HandleClientV30(req) == ClientRequestV30(req) /\ UNCHANGED served

\* loop of v3.0: the sensor is read and the trigger branch is entered or not
SensorPollV30(sensorValue) ==
    /\ fw = "v30" /\ pc = "sensor"
    /\ IF sensorValue >= SENSOR_THRESHOLD
          /\ CooldownElapsed(millis, lastTrigger, COOLDOWN_SECONDS * 1000)
       THEN /\ lastTrigger' = millis
            /\ trig' = Honored(trig, millis, COOLDOWN_SECONDS * 1000)
            /\ calls' = <<>>
            /\ now' = UAdd(now, 500)
            /\ capRet' = "trigger"
            /\ pc' = "capture"
       ELSE /\ pc' = "periodic"
            /\ UNCHANGED <<lastTrigger, trig, now, capRet, calls>>
    /\ UNCHANGED <<fw, statusLed, statVars, netOp, envVars, detVars, ticks, prefs, v2Vars, deviceId, serverUrl, wifiSSID, wifiPass,
                   inPortalMode, wifiConnected, lastConfigFetch, fbHeld, httpResp,
                   linkUp, joinCalls, joinPolls, portalCalls, cap, saved>>

\* captureAndUpload of v3.0 up to esp_camera_fb_get
CaptureBeginV30(fbOk) ==
    /\ fw = "v30" /\ pc = "capture"
    /\ now' = UAdd(now, 200)
    /\ calls' = Append(calls, "capture")
    /\ IF fbOk
       THEN /\ fbHeld' = fbHeld + 1
            /\ cap' = [NoCapture EXCEPT !.gets = 1]
            /\ pc' = "upload"
       ELSE /\ cap' = [NoCapture EXCEPT !.outcome = "capture_failed"]
            /\ pc' = "deterrent"
            /\ UNCHANGED fbHeld
    /\ UNCHANGED <<fw, statusLed, statVars, netOp, envVars, detVars, ticks, prefs, v2Vars, v30Vars, lastConfigFetch, capRet,
                   httpResp, linkUp, joinCalls, joinPolls, portalCalls, trig, saved>>

\* captureAndUpload of v3.0 from the upload to its end, with the reply to
\* the POST if one is made
CaptureUploadV30(rp) ==
    LET uploading == wifiConnected /\ strlen(serverUrl) > 0
        outcome == UploadOutcome(rp, UploadAcceptedV30(rp))
    IN
    /\ fw = "v30" /\ pc = "upload"
    /\ fbHeld' = fbHeld - Released(outcome)
    /\ cap' = [gets |-> cap.gets, returns |-> cap.returns + Released(outcome),
               outcome |-> IF uploading THEN outcome ELSE "not_connected",
               attempts |-> IF uploading THEN cap.attempts + 1 ELSE cap.attempts,
               reply |-> IF uploading THEN rp ELSE cap.reply]
    /\ calls' = IF uploading THEN Append(calls, "upload") ELSE calls
    /\ netOp' = IF uploading THEN NetOp("upload", millis, linkUp) ELSE netOp
    /\ now' = IF uploading /\ outcome = "timeout" THEN UAdd(now, 10000) ELSE now
    /\ pc' = "deterrent"
    /\ UNCHANGED <<fw, statusLed, statVars, envVars, detVars, ticks, prefs, v2Vars, v30Vars, lastConfigFetch, capRet,
                   httpResp, linkUp, joinCalls, joinPolls, portalCalls, trig, saved>>

\* activateDeterrent of v3.0: three waves, five beeps, ten flashes
ActivateDeterrentV30 ==
    /\ fw = "v30" /\ pc = "deterrent"
    /\ now' = UAdd(now, 3 * 600 + 5 * 200 + 10 * 100)
    /\ calls' = Append(calls, "deterrent")
    /\ pc' = "periodic"
    /\ UNCHANGED <<fw, statusLed, statVars, netOp, envVars, detVars, ticks, prefs, v2Vars, v30Vars, lastConfigFetch, fbHeld, capRet,
                   httpResp, obsVars>>

\* loop of v3.0: the periodic fetchConfig, which only logs the code it gets
PeriodicV30 ==
    LET fetch == wifiConnected
                 /\ IntervalElapsed(millis, lastConfigFetch)
    IN
    /\ fw = "v30" /\ pc = "periodic"
    /\ lastConfigFetch' = IF fetch THEN millis ELSE lastConfigFetch
    /\ netOp' = IF fetch THEN NetOp("fetch", millis, linkUp) ELSE netOp
    /\ pc' = "tick"
    /\ UNCHANGED <<fw, statusLed, statVars, calls, envVars, detVars, timeVars, prefs, v2Vars, v30Vars, fbHeld, capRet, httpResp,
                   obsVars>>

(***************************************************************************)
(* v3.1: setup and loop.  The credentials are compiled in, there is no     *)
(* portal and no restart; loop re-joins the network when it finds it gone. *)
(***************************************************************************)
\* the text a config response gives for server_url
PushedServerUrl == Str(7, 24)

\* connectWiFi: the time it takes when the link comes up after upAt polls:
\* blinkLED(3, 100), the polls, the LED on for 1 s or blinkLED(20, 100)
ConnectMsV31(upAt) ==
    600 + 500 * PollsMade(upAt, WIFI_POLLS_V31)
        + (IF WiFiJoined(upAt, WIFI_POLLS_V31) THEN 1000 ELSE 4000)

\* setup of v3.1: loadConfig and connectWiFi
SetupV31(upAt) ==
    LET p1 == LoadedPrefsV30(prefs) IN
    /\ fw = "v31" /\ pc = "boot"
    /\ prefs' = p1
    /\ deviceId' = PrefsGet(p1, "deviceId", EmptyStr)
    /\ serverUrl' = PrefsGet(p1, "serverUrl", DEFAULT_SERVER_URL)
    /\ servoDuration' = PrefsGet(p1, "servoDur", DEFAULT_SERVO_DURATION)
    /\ servo1' = 90 /\ servo2' = 90 /\ ledOn' = FALSE /\ buzzerOn' = FALSE
    /\ joinCalls' = joinCalls + 1
    /\ joinPolls' = PollsMade(upAt, WIFI_POLLS_V31)
    /\ linkUp' = (upAt <= WIFI_POLLS_V31)
    /\ wifiConnected' = WiFiJoined(upAt, WIFI_POLLS_V31)
    /\ now' = UAdd(now, 1000 + ConnectMsV31(upAt))
    /\ pc' = "loop"
    /\ UNCHANGED <<fw, ticks, v2Vars, wifiSSID, wifiPass, inPortalMode, lastTrigger,
                   lastConfigFetch, startTime, pos, fbHeld, capRet, httpResp, portalCalls,
                   trig, cap, saved, auxVars>>

\* the flag after the WiFi check of loop found the link down and connectWiFi
\* has returned
Reconnected(joined) == joined

\* loop: the WiFi check; with the link down, wifiConnected = false and
\* connectWiFi, the link coming up after upAt polls
LoopHeadV31(upAt) ==
    /\ fw = "v31" /\ pc = "loop"
    /\ IF ~linkUp
       THEN /\ wifiConnected' = Reconnected(WiFiJoined(upAt, WIFI_POLLS_V31))
            /\ joinCalls' = joinCalls + 1
            /\ joinPolls' = PollsMade(upAt, WIFI_POLLS_V31)
            /\ linkUp' = (upAt <= WIFI_POLLS_V31)
            /\ now' = UAdd(now, ConnectMsV31(upAt))
       ELSE UNCHANGED <<wifiConnected, joinCalls, joinPolls, linkUp, now>>
    /\ pc' = "sensor"
    /\ UNCHANGED <<fw, ticks, prefs, v2Vars, deviceId, serverUrl, wifiSSID, wifiPass,
                   inPortalMode, lastTrigger, lastConfigFetch, detVars, fbHeld, capRet,
                   httpResp, portalCalls, trig, cap, saved, auxVars>>

\* loop of v3.1: the sensor is read and the trigger branch is entered or not
SensorPollV31(sensorValue) ==
    /\ fw = "v31" /\ pc = "sensor"
    /\ IF sensorValue >= SENSOR_THRESHOLD
          /\ CooldownElapsed(millis, lastTrigger, COOLDOWN_SECONDS * 1000)
       THEN /\ lastTrigger' = millis
            /\ trig' = Honored(trig, millis, COOLDOWN_SECONDS * 1000)
            /\ calls' = <<>>
            /\ now' = UAdd(now, 500)
            /\ capRet' = "trigger"
            /\ pc' = "capture"
       ELSE /\ pc' = "periodic"
            /\ UNCHANGED <<lastTrigger, trig, now, capRet, calls>>
    /\ UNCHANGED <<fw, statusLed, statVars, netOp, envVars, detVars, ticks, prefs, v2Vars,
                   deviceId, serverUrl, wifiSSID, wifiPass, inPortalMode, wifiConnected,
                   lastConfigFetch, fbHeld, httpResp, linkUp, joinCalls, joinPolls,
                   portalCalls, cap, saved>>

\* captureAndUpload of v3.1, with the frame the camera gives and the code
\* http.POST returns if the upload is made
CaptureAndUploadV31(fbOk, code) ==
    LET uploading == fbOk /\ wifiConnected /\ strlen(serverUrl) > 0 IN
    /\ fw = "v31" /\ pc = "capture"
    /\ now' = UAdd(now, 2 * (50 + 50))
    /\ calls' = IF uploading THEN calls \o <<"capture", "upload">>
                ELSE Append(calls, "capture")
    /\ cap' = [gets |-> IF fbOk THEN 1 ELSE 0,
               returns |-> IF fbOk THEN 1 ELSE 0,
               outcome |-> IF ~fbOk THEN "capture_failed"
                           ELSE IF ~uploading THEN "not_connected"
                           ELSE IF code = 200 THEN "ok" ELSE "rejected",
               attempts |-> IF uploading THEN 1 ELSE 0,
               reply |-> IF uploading THEN Reply(code > 0, code, FALSE, FALSE) ELSE NoReply]
    /\ netOp' = IF uploading THEN NetOp("upload", now', linkUp) ELSE netOp
    /\ pc' = "deterrent"
    /\ UNCHANGED <<fw, statusLed, statVars, envVars, detVars, ticks, prefs, v2Vars, v30Vars,
                   lastConfigFetch, fbHeld, capRet, httpResp, linkUp, joinCalls, joinPolls,
                   portalCalls, trig, saved>>

\* activateDeterrent of v3.1: millis() when its while loop is left, the
\* condition being tested at t and endTime being e
\* (the test of next makes TLC compute each cycle before the following one)
RECURSIVE WavedV31(_, _)
WavedV31(t, e) ==
    IF ~ULess(t, e) THEN t
    ELSE IF UGeq(UAdd(t, 300), e) THEN UAdd(t, 300)
    ELSE LET next == UAdd(t, 300 + 300 + 50)
         IN  IF next = next THEN WavedV31(next, e) ELSE t

\* the trigger branch of v3.1 after captureAndUpload: AUTO_DETERRENT is true,
\* activateDeterrent runs to its end (SpecDeterrent goes through it step by
\* step)
AfterCaptureV31 ==
    /\ fw = "v31" /\ pc = "deterrent"
    /\ startTime' = millis
    /\ now' = UAdd(WavedV31(millis, UAdd(millis, servoDuration)), 5 * (50 + 50))
    /\ servo1' = 90 /\ servo2' = 90 /\ ledOn' = FALSE /\ buzzerOn' = FALSE
    /\ calls' = Append(calls, "deterrent")
    /\ pc' = "periodic"
    /\ UNCHANGED <<fw, statusLed, statVars, netOp, envVars, servoDuration, pos, ticks, prefs,
                   v2Vars, v30Vars, lastConfigFetch, fbHeld, capRet, httpResp, obsVars>>

\* config["servo_duration"].as<unsigned long>()
AsULong(v) == IF v.t = "int" /\ v.i >= 0 THEN v.i ELSE 0

\* fetchConfig of v3.1 got a document with a config object
AppliedV31(r) == r.code = 200 /\ r.parseOk

\* durationSec * 1000UL: the product modulo 2^32, taken in two halves of
\* durationSec (high 15 bits, low 16 bits) so that no step leaves 32 bits
NewDuration(durationSec) ==
    LET h == durationSec \div 65536
        l == durationSec % 65536
        m == (h * 1000) % 65536
        high == IF m >= 32768 THEN (m - 65536) * 65536 ELSE m * 65536
        low == l * 1000
    IN  IF high > 2147483647 - low
        THEN (high - 2147483647 - 1) + (low - 2147483647 - 1)
        ELSE high + low

\* fetchConfig of v3.1: the range test on the seconds, without its upper end
DurationAcceptedNoHigh(durationSec) == UGeq(durationSec, 1)
\* fetchConfig of v3.1: durationSec >= 1 && durationSec <= 60
DurationAccepted(durationSec) == UGeq(durationSec, 1) /\ ~UGreater(durationSec, 60)

\* fetchConfig of v3.1: servoDuration when it returns
FetchedServoDuration(d, r) ==
    IF AppliedV31(r) /\ "servo_duration" \in DOMAIN r.cfg
    THEN LET durationSec == AsULong(r.cfg["servo_duration"])
             newDuration == NewDuration(durationSec)
         IN  IF newDuration /= d /\ DurationAccepted(durationSec)
             THEN newDuration ELSE d
    ELSE d

\* fetchConfig of v3.1: serverUrl when it returns
FetchedServerUrl(url, r) ==
    IF AppliedV31(r) /\ "server_url" \in DOMAIN r.cfg
          /\ r.cfg["server_url"].t = "str" /\ strlen(r.cfg["server_url"].s) > 0
    THEN r.cfg["server_url"].s
    ELSE url

\* fetchConfig of v3.1 with the new values kept in memory only
FetchedPrefsV31Cached(p, d, url, r) == p
\* fetchConfig of v3.1: the store when it returns; a value is written when it
\* changes
FetchedPrefsV31(p, d, url, r) ==
    LET d1 == FetchedServoDuration(d, r)
        url1 == FetchedServerUrl(url, r)
        p1 == IF d1 /= d THEN PrefsPut(p, "servoDur", d1) ELSE p
    IN  IF url1 /= url THEN PrefsPut(p1, "serverUrl", url1) ELSE p1

\* loop of v3.1: the periodic fetchConfig, with the response to its GET
PeriodicV31(r) ==
    LET fetch == wifiConnected
                 /\ IntervalElapsed(millis, lastConfigFetch)
    IN
    /\ fw = "v31" /\ pc = "periodic"
    /\ servoDuration' = IF fetch THEN FetchedServoDuration(servoDuration, r)
                        ELSE servoDuration
    /\ serverUrl' = IF fetch THEN FetchedServerUrl(serverUrl, r) ELSE serverUrl
    /\ prefs' = IF fetch THEN FetchedPrefsV31(prefs, servoDuration, serverUrl, r) ELSE prefs
    /\ httpResp' = IF fetch THEN r ELSE httpResp
    /\ lastConfigFetch' = IF fetch THEN millis ELSE lastConfigFetch
    /\ netOp' = IF fetch THEN NetOp("fetch", millis, linkUp) ELSE netOp
    /\ pc' = "tick"
    /\ UNCHANGED <<fw, statusLed, statVars, calls, envVars, servo1, servo2, ledOn, buzzerOn,
                   startTime, pos, timeVars, v2Vars, deviceId, wifiSSID, wifiPass,
                   inPortalMode, wifiConnected, lastTrigger, fbHeld, capRet, obsVars>>

\* the device's life: every request, every capture outcome, a server that
\* answers every config GET alike, iterations a minute apart
NextV2 ==
    \/ \E b \in BOOLEAN, upAt \in JoinTimes(WIFI_POLLS_V2), m \in BOOLEAN :
          Setup(b, upAt, m, Resp(200, TRUE, TRUE, NoObject))
    \/ CheckResetButton(FALSE)
    \/ \E req \in Requests : HandleClient(req)
    \/ \E high \in BOOLEAN : SensorPoll(high, ANALOG_SENSOR_THRESHOLD)
    \/ \E ok \in BOOLEAN : CaptureBegin(ok)
    \/ \E rp \in UploadReplies : CaptureUpload(rp)
    \/ AfterCapture
    \/ Periodic(Resp(200, TRUE, TRUE, NoObject), 200)

NextV30 ==
    \/ \E upAt \in JoinTimes(WIFI_POLLS_V30) : SetupV30(upAt)
    \/ \E req \in Requests : HandleClientV30(req)
    \/ \E a \in AnalogReadings : SensorPollV30(a)
    \/ \E ok \in BOOLEAN : CaptureBeginV30(ok)
    \/ \E rp \in UploadReplies : CaptureUploadV30(rp)
    \/ ActivateDeterrentV30
    \/ PeriodicV30

Next == NextV2 \/ NextV30 \/ EndOfLoop(60000) \/ Restart

Spec == Init /\ [][Next]_vars

(***************************************************************************)
(* SpecTrigger: a provisioned device that joins its network at once, seen  *)
(* from its sensor: readings, config syncs and iterations of any length.   *)
(***************************************************************************)
\* the form a user submits to provision the device
Provisioning == Save(Str(4, 8), Str(5, 10), Str(6, 24), FALSE)

\* the store a provisioned device boots with
ProvisionedPrefs(variant) ==
    IF variant = "v2"
    THEN SaveConfigV2(NoPrefs, PortalSavedConfig(LoadConfigV2(NoPrefs), Provisioning))
    ELSE SaveConfigV30(LoadedPrefsV30(NoPrefs), Provisioning.server, Provisioning.ssid,
                       Provisioning.password)

InitTrigger ==
    /\ fw \in {"v2", "v30"}
    /\ pc = "boot"
    /\ prefs = ProvisionedPrefs(fw)
    /\ config = ZeroConfig
    /\ Idle
    /\ ButtonUp

\* config responses: none of the keys, a longer cooldown, a cooldown of zero,
\* no answer
TriggerResponses ==
    {Resp(200, TRUE, TRUE, NoObject),
     Resp(200, TRUE, TRUE, Only("cooldown_sec", JInt(120))),
     Resp(200, TRUE, TRUE, Only("cooldown_sec", JInt(0))),
     Resp(-1, FALSE, FALSE, NoObject)}

NextTrigger ==
    \/ \E r \in TriggerResponses : Setup(FALSE, 0, FALSE, r)
    \/ CheckResetButton(FALSE)
    \/ HandleClient(NoRequest)
    \/ \E high \in BOOLEAN, a \in AnalogReadings : SensorPoll(high, a)
    \/ CaptureBegin(TRUE)
    \/ CaptureUpload(Reply(TRUE, 200, FALSE, FALSE))
    \/ AfterCapture
    \/ \E r \in TriggerResponses : Periodic(r, 200)
    \/ SetupV30(0)
    \/ HandleClientV30(NoRequest)
    \/ \E a \in AnalogReadings : SensorPollV30(a)
    \/ CaptureBeginV30(TRUE)
    \/ CaptureUploadV30(Reply(TRUE, 200, FALSE, FALSE))
    \/ ActivateDeterrentV30
    \/ PeriodicV30
    \/ \E d \in Steps : EndOfLoop(d)

SpecTrigger == InitTrigger /\ [][NextTrigger]_vars

(***************************************************************************)
(* SpecWrap: a provisioned, connected device (v2, v3.0) 49.7 days after    *)
(* power-on, around the moment its 32-bit clock wraps, with a sensor that  *)
(* gives a qualifying reading at every poll.  The times are counted from   *)
(* the wrap: a negative one is that long before it.                        *)
(***************************************************************************)
\* millis() at the first iteration looked at
WrapStarts == {-100, 2000}
\* how long before it the last trigger was honored
WrapSince == {5000, 32000, 72000}

InitWrap ==
    /\ fw \in {"v2", "v30"}
    /\ pc = "loop"
    /\ now \in WrapStarts /\ ticks = 0
    /\ prefs = ProvisionedPrefs(fw)
    /\ \E since \in WrapSince :
          IF fw = "v2"
          THEN /\ config = LoadConfigV2(prefs)
               /\ isConnected = TRUE /\ serverReachable = TRUE
               /\ lastMotionDetected = now - since /\ currentTime = now - since
               /\ lastDetectionTime = now - since
               /\ trig = Honored(NoTrigger, now - since, CooldownMs(config))
               /\ lastServerCheck = now
               /\ deviceId = EmptyStr /\ serverUrl = EmptyStr /\ wifiSSID = EmptyStr
               /\ wifiPass = EmptyStr /\ wifiConnected = FALSE /\ lastTrigger = 0
               /\ uploadCount = 1 /\ lastUploadTime = now - since + 500
               /\ detectionCount = 1
               /\ httpResp = Resp(200, TRUE, TRUE, NoObject)
          ELSE /\ config = ZeroConfig
               /\ isConnected = FALSE /\ serverReachable = FALSE
               /\ lastMotionDetected = 0 /\ currentTime = 0 /\ lastDetectionTime = 0
               /\ trig = Honored(NoTrigger, now - since, COOLDOWN_SECONDS * 1000)
               /\ lastServerCheck = 0
               /\ deviceId = PrefsGet(prefs, "deviceId", EmptyStr)
               /\ serverUrl = PrefsGet(prefs, "serverUrl", DEFAULT_SERVER_URL)
               /\ wifiSSID = PrefsGet(prefs, "wifiSSID", EmptyStr)
               /\ wifiPass = PrefsGet(prefs, "wifiPass", EmptyStr)
               /\ wifiConnected = TRUE /\ lastTrigger = now - since
               /\ uploadCount = 0 /\ lastUploadTime = 0 /\ detectionCount = 0
               /\ httpResp = NoResp
    /\ isConfigMode = FALSE /\ inPortalMode = FALSE
    /\ lastConfigFetch = now
    /\ buttonPressed = FALSE /\ buttonPressStart = 0
    /\ servoDuration = DEFAULT_SERVO_DURATION
    /\ servo1 = 90 /\ servo2 = 90 /\ ledOn = FALSE /\ buzzerOn = FALSE
    /\ startTime = 0 /\ pos = 0
    /\ fbHeld = 0 /\ capRet = "trigger"
    /\ linkUp = TRUE /\ joinCalls = 1 /\ joinPolls = 0 /\ portalCalls = 0
    /\ cap = [gets |-> 1, returns |-> 1, outcome |-> "ok", attempts |-> 1,
              reply |-> Reply(TRUE, 200, FALSE, FALSE)]
    /\ saved = NoSave
    /\ statusLed = StatusLED
    /\ calls = <<"capture", "upload", "deterrent">>
    /\ netOp = NetOp("fetch", now, TRUE)
    /\ ButtonUp

NextWrap ==
    \/ CheckResetButton(FALSE)
    \/ HandleClient(NoRequest)
    \/ SensorPoll(TRUE, ANALOG_SENSOR_THRESHOLD)
    \/ CaptureBegin(TRUE)
    \/ CaptureUpload(Reply(TRUE, 200, FALSE, FALSE))
    \/ AfterCapture
    \/ Periodic(Resp(200, TRUE, TRUE, NoObject), 200)
    \/ HandleClientV30(NoRequest)
    \/ SensorPollV30(SENSOR_THRESHOLD)
    \/ CaptureBeginV30(TRUE)
    \/ CaptureUploadV30(Reply(TRUE, 200, FALSE, FALSE))
    \/ ActivateDeterrentV30
    \/ PeriodicV30
    \/ \E d \in Steps : EndOfLoop(d)

SpecWrap == InitWrap /\ [][NextWrap]_vars

(***************************************************************************)
(* SpecSensor: a provisioned v2 device and a sensor output that is HIGH    *)
(* from power-on and stays HIGH: a digital read gives HIGH at every poll,  *)
(* an analog read gives any ADC value.                                     *)
(***************************************************************************)
\* config responses: none of the keys, the PIR sensor selected
SensorResponses ==
    {Resp(200, TRUE, TRUE, NoObject),
     Resp(200, TRUE, TRUE, Only("sensor_type", JInt(0)))}

InitSensor ==
    /\ fw = "v2"
    /\ pc = "boot"
    /\ prefs = ProvisionedPrefs("v2")
    /\ config = ZeroConfig
    /\ Idle
    /\ ButtonUp

NextSensor ==
    \/ \E r \in SensorResponses : Setup(FALSE, 0, FALSE, r)
    \/ CheckResetButton(FALSE)
    \/ HandleClient(NoRequest)
    \/ \E a \in AnalogReadings : SensorPoll(TRUE, a)
    \/ CaptureBegin(TRUE)
    \/ CaptureUpload(Reply(TRUE, 200, FALSE, FALSE))
    \/ AfterCapture
    \/ Periodic(Resp(200, TRUE, TRUE, NoObject), 200)
    \/ \E d \in Steps : EndOfLoop(d)

SpecSensor == InitSensor /\ [][NextSensor]_vars

(***************************************************************************)
(* SpecPortal: a device that is in its captive portal whenever setup has   *)
(* run (fresh, or provisioned for a network that is not there), the HTTP   *)
(* requests and DNS queries of the clients of its access point, and the    *)
(* answers it gives.                                                       *)
(***************************************************************************)
\* startCaptivePortal: the GET routes, by the answer their handler sends
PagePathsV2 ==
    {"/", "/hotspot-detect.html", "/library/test/success.html", "/ncsi.txt", "/redirect",
     "/fwlink"}
RedirectPathsV2 == {"/generate_204", "/gen_204", "/connecttest.txt"}
PagePathsV30 == {"/", "/hotspot-detect.html"}
RedirectPathsV30 == {"/generate_204", "/gen_204", "/ncsi.txt", "/connecttest.txt", "/fwlink"}

\* the answer to a request no route matches, were no handler installed for it
OnNotFoundDefault == "not_found"
\* server.onNotFound(handlePortalRoot) / server.onNotFound(handleRoot)
OnNotFound == "page"

\* the answer of the v2 portal: the configuration page (200), a 302 to
\* http://192.168.4.1/, the scan result, the save confirmation
PortalAnswerV2(req) ==
    IF req.kind = "save" THEN "saved"
    ELSE IF req.kind = "get" /\ req.path = "/scan" THEN "scan"
    ELSE IF req.kind = "get" /\ req.path \in RedirectPathsV2 THEN "redirect"
    ELSE IF req.kind = "get" /\ req.path \in PagePathsV2 THEN "page"
    ELSE OnNotFound

\* the answer of the v3.0 portal: the configuration page, a page that
\* redirects to http://192.168.4.1/, the scan result, the save confirmation,
\* 400 Missing SSID, the reset page
PortalAnswerV30(req) ==
    IF req.kind = "save"
    THEN IF HasSsid(req) THEN "saved" ELSE "missing_ssid"
    ELSE IF req.kind = "get" /\ req.path = "/scan" THEN "scan"
    ELSE IF req.kind = "get" /\ req.path = "/reset" THEN "resetting"
    ELSE IF req.kind = "get" /\ req.path \in RedirectPathsV30 THEN "redirect"
    ELSE IF req.kind = "get" /\ req.path \in PagePathsV30 THEN "page"
    ELSE OnNotFound

\* dnsServer.start(53, "*", ip): the domain name the responder answers for
DnsDomain == "*"
\* dnsServer.processNextRequest(): the answer to a query for name
DnsAnswer(name) == IF DnsDomain = "*" \/ name = DnsDomain THEN "192.168.4.1" ELSE "none"

\* the paths the connectivity checks of the client systems ask for
ProbePaths ==
    {"/generate_204", "/gen_204", "/hotspot-detect.html", "/ncsi.txt", "/connecttest.txt",
     "/fwlink"}
\* requests of the clients of the access point: every route, paths no route
\* has, routes asked with the other method, and the form submissions
PortalRequests ==
    {Get(path) : path \in PagePathsV2 \cup RedirectPathsV2
                          \cup {"/scan", "/reset", "/save", "/test", "/favicon.ico"}}
    \cup {Request("post", path, Absent, Absent, Absent, FALSE) : path \in {"/", "/scan", "/upload"}}
    \cup {r \in Requests : r.kind = "save"}
    \cup {NoRequest}
\* names the clients ask the DNS responder for
QueriedNames == {"connectivitycheck.gstatic.com", "scarecrow.local"}

\* an iteration of loop in portal mode up to its return: server.handleClient()
\* and dnsServer.processNextRequest(), which a restart in the handler cuts off
PortalRequest(req, name) ==
    /\ (isConfigMode \/ inPortalMode)
    /\ (ClientRequest(req) \/ ClientRequestV30(req))
    /\ served' = [kind |-> req.kind, path |-> req.path,
                  answer |-> IF req.kind = "none" THEN "none"
                             ELSE IF fw = "v2" THEN PortalAnswerV2(req)
                             ELSE PortalAnswerV30(req),
                  dns |-> IF pc' = "restart" THEN "none" ELSE DnsAnswer(name)]

NextPortal ==
    \/ Setup(FALSE, WIFI_POLLS_V2 + 1, FALSE, Resp(-1, FALSE, FALSE, NoObject))
    \/ CheckResetButton(FALSE)
    \/ SetupV30(WIFI_POLLS_V30 + 1)
    \/ \E req \in PortalRequests, name \in QueriedNames : PortalRequest(req, name)
    \/ \E d \in Steps : EndOfLoop(d)
    \/ Restart

SpecPortal == Init /\ [][NextPortal]_vars

(***************************************************************************)
(* SpecLed: the status LED of a v2 device in its portal, the slow blink    *)
(* just started, and loop calling statusLed.update() every 100 ms.         *)
(***************************************************************************)
\* millis() when startCaptivePortal called patternPortal: at boot, after a
\* failed join, 2.5 s before millis() wraps
PatternStarts == {4800, 26900, -2500}

InitLed ==
    /\ fw = "v2"
    /\ pc = "led"
    /\ now \in PatternStarts /\ ticks = 0
    /\ prefs = NoPrefs
    /\ config = LoadConfigV2(NoPrefs)
    /\ isConfigMode = TRUE /\ isConnected = FALSE
    /\ serverReachable = FALSE
    /\ lastMotionDetected = 0 /\ lastConfigFetch = 0 /\ lastServerCheck = 0
    /\ buttonPressed = FALSE /\ buttonPressStart = 0 /\ currentTime = 0
    /\ deviceId = EmptyStr /\ serverUrl = EmptyStr /\ wifiSSID = EmptyStr
    /\ wifiPass = EmptyStr /\ inPortalMode = FALSE /\ wifiConnected = FALSE
    /\ lastTrigger = 0
    /\ servoDuration = DEFAULT_SERVO_DURATION
    /\ servo1 = 90 /\ servo2 = 90 /\ ledOn = FALSE /\ buzzerOn = FALSE
    /\ startTime = 0 /\ pos = 0
    /\ fbHeld = 0 /\ capRet = "none" /\ httpResp = NoResp
    /\ linkUp = FALSE /\ joinCalls = 0 /\ joinPolls = 0 /\ portalCalls = 1
    /\ trig = NoTrigger /\ cap = NoCapture /\ saved = NoSave
    /\ statusLed = patternPortal(now)
    /\ uploadCount = 0 /\ lastUploadTime = 0 /\ detectionCount = 0 /\ lastDetectionTime = 0
    /\ calls = <<>> /\ netOp = NoNetOp
    /\ resetPinLow = FALSE /\ hold = NoHold
    /\ ledTrace = [since |-> now, at |-> <<>>]
    /\ wait = NoWait /\ served = NoServed /\ body = NoBody

\* d ms go by and statusLed.update() is called; the watcher notes a change of
\* the LED with the time since the pattern started
UpdateTick(d) ==
    LET t == UAdd(now, d)
        led == update(statusLed, t)
    IN
    /\ pc = "led"
    /\ ticks < MaxUpdates
    /\ now' = t
    /\ ticks' = ticks + 1
    /\ statusLed' = led
    /\ ledTrace' = IF led.ledState /= statusLed.ledState
                   THEN [ledTrace EXCEPT !.at = Append(@, USub(t, ledTrace.since))]
                   ELSE ledTrace
    /\ UNCHANGED <<fw, pc, prefs, v2Vars, v30Vars, lastConfigFetch, detVars, fbHeld, capRet,
                   httpResp, obsVars, statVars, calls, netOp, resetPinLow, hold, wait, served, body>>

NextLed == UpdateTick(100)

SpecLed == InitLed /\ [][NextLed]_vars

\* ---- counted patterns: setPattern(on, off, count) followed by update() calls ----

\* the patterns started: patternError(), patternUpload(), a single pulse, a
\* pattern without an off time, and patternConnecting() which is not counted
CountedPatterns ==
    { [on |-> LED_PATTERN_ERROR_ON, off |-> LED_PATTERN_ERROR_OFF,
       count |-> LED_PATTERN_ERROR_COUNT],
      [on |-> LED_PATTERN_UPLOAD_ON, off |-> LED_PATTERN_UPLOAD_OFF, count |-> 3],
      [on |-> LED_PATTERN_ERROR_ON, off |-> LED_PATTERN_ERROR_OFF, count |-> 1],
      [on |-> LED_PATTERN_CONNECT_ON, off |-> 0, count |-> 2],
      [on |-> LED_PATTERN_CONNECT_ON, off |-> LED_PATTERN_CONNECT_OFF, count |-> -1] }
\* millis() at the setPattern call; the second is 120 ms before the wrap
CountStarts == {4800, -120}
\* the time from one update() call to the next
UpdateRates == {30, 100, 250}

InitCount ==
    /\ fw = "v2"
    /\ pc = "led"
    /\ now \in CountStarts /\ ticks = 0
    /\ prefs = NoPrefs
    /\ config = LoadConfigV2(NoPrefs)
    /\ isConfigMode = FALSE /\ isConnected = FALSE
    /\ serverReachable = FALSE
    /\ lastMotionDetected = 0 /\ lastConfigFetch = 0 /\ lastServerCheck = 0
    /\ buttonPressed = FALSE /\ buttonPressStart = 0 /\ currentTime = 0
    /\ deviceId = EmptyStr /\ serverUrl = EmptyStr /\ wifiSSID = EmptyStr
    /\ wifiPass = EmptyStr /\ inPortalMode = FALSE /\ wifiConnected = FALSE
    /\ lastTrigger = 0
    /\ servoDuration = DEFAULT_SERVO_DURATION
    /\ servo1 = 90 /\ servo2 = 90 /\ ledOn = FALSE /\ buzzerOn = FALSE
    /\ startTime = 0 /\ pos = 0
    /\ fbHeld = 0 /\ capRet = "none" /\ httpResp = NoResp
    /\ linkUp = FALSE /\ joinCalls = 0 /\ joinPolls = 0 /\ portalCalls = 0
    /\ trig = NoTrigger /\ cap = NoCapture /\ saved = NoSave
    /\ \E p \in CountedPatterns : statusLed = setPattern(p.on, p.off, p.count, now)
    /\ uploadCount = 0 /\ lastUploadTime = 0 /\ detectionCount = 0 /\ lastDetectionTime = 0
    /\ calls = <<>> /\ netOp = NoNetOp
    /\ resetPinLow = FALSE /\ hold = NoHold
    /\ ledTrace = [since |-> now, at |-> <<>>]
    /\ wait = NoWait /\ served = NoServed /\ body = NoBody

NextCount == ticks < MaxCalls /\ \E d \in UpdateRates : UpdateTick(d)

SpecCount == InitCount /\ [][NextCount]_vars

(***************************************************************************)
(* SpecWait: uploadImage of v2 from the point where the request has been   *)
(* written: the wait for the first byte of the response, poll by poll, at  *)
(* uptimes far from and close to the wrap of millis().                     *)
(***************************************************************************)
\* millis() when the request has been written
WaitStarts == {0, 70000, -20000, -10050, -5000}

InitWait ==
    /\ fw = "v2" /\ pc = "wait_begin"
    /\ now \in WaitStarts /\ ticks = 0
    /\ prefs = NoPrefs
    /\ config = LoadConfigV2(NoPrefs)
    /\ isConfigMode = FALSE /\ isConnected = TRUE
    /\ serverReachable = TRUE
    /\ lastMotionDetected = 0 /\ lastConfigFetch = 0 /\ lastServerCheck = 0
    /\ buttonPressed = FALSE /\ buttonPressStart = 0 /\ currentTime = 0
    /\ deviceId = EmptyStr /\ serverUrl = EmptyStr /\ wifiSSID = EmptyStr
    /\ wifiPass = EmptyStr /\ inPortalMode = FALSE /\ wifiConnected = FALSE
    /\ lastTrigger = 0
    /\ servoDuration = DEFAULT_SERVO_DURATION
    /\ servo1 = 90 /\ servo2 = 90 /\ ledOn = FALSE /\ buzzerOn = FALSE
    /\ startTime = 0 /\ pos = 0
    /\ fbHeld = 1 /\ capRet = "none" /\ httpResp = NoResp
    /\ linkUp = TRUE /\ joinCalls = 1 /\ joinPolls = 0 /\ portalCalls = 0
    /\ trig = NoTrigger /\ cap = NoCapture /\ saved = NoSave
    /\ statusLed = patternUpload(now)
    /\ uploadCount = 0 /\ lastUploadTime = 0 /\ detectionCount = 0 /\ lastDetectionTime = 0
    /\ calls = <<>> /\ netOp = NoNetOp
    /\ ButtonUp

\* what no step of the wait touches
WaitFrame ==
    UNCHANGED <<fw, prefs, config, isConfigMode, isConnected, lastMotionDetected,
                lastServerCheck, buttonPressed, buttonPressStart, currentTime, v30Vars,
                lastConfigFetch, detVars, fbHeld, capRet, httpResp, obsVars, statVars, calls,
                netOp, resetPinLow, hold, ledTrace, served, body>>

\* uploadImage: the deadline as the code computes it
Deadline(t) == UAdd(t, 10000)

\* uploadImage:  unsigned long timeout = millis() + 10000;
WaitBegin ==
    /\ pc = "wait_begin"
    /\ wait' = [since |-> millis, timeout |-> Deadline(millis), outcome |-> "waiting"]
    /\ pc' = "wait"
    /\ UNCHANGED <<timeVars, serverReachable, statusLed>>
    /\ WaitFrame

\* uploadImage: one turn of  while (client.available() == 0), with whether a
\* byte of the response has arrived
WaitPoll(available) ==
    /\ pc = "wait"
    /\ IF available
       THEN /\ wait' = [wait EXCEPT !.outcome = "response"]
            /\ pc' = "waited"
            /\ UNCHANGED <<timeVars, serverReachable, statusLed>>
       ELSE IF UGreater(millis, wait.timeout)
       THEN /\ wait' = [wait EXCEPT !.outcome = "timeout"]
            /\ statusLed' = patternError(millis)
            /\ pc' = "waited"
            /\ UNCHANGED <<timeVars, serverReachable>>
       ELSE /\ ticks < MaxPolls
            /\ now' = UAdd(now, 100)
            /\ ticks' = ticks + 1
            /\ UNCHANGED <<pc, wait, serverReachable, statusLed>>
    /\ WaitFrame

NextWait == WaitBegin \/ \E available \in BOOLEAN : WaitPoll(available)

SpecWait == InitWait /\ [][NextWait]_vars

(***************************************************************************)
(* SpecUpload: uploadImage of v2 from the request line to the last byte of *)
(* the body, for a frame of any length and a connection that takes every   *)
(* write in full.  Of the texts only the lengths are kept.                 *)
(***************************************************************************)
\* frame lengths: none, around one, two and three chunks, a VGA JPEG
ImageLens ==
    (0 .. 2) \cup (1022 .. 1026) \cup (2046 .. 2050) \cup {3071, 3072, 3073, 30000}
\* millis() when uploadImage is called
UploadStarts == {7, 66600, 1234567, -5000}

\* String(millis()).length(): the decimal digits of an unsigned long
RECURSIVE Digits(_)
Digits(t) == IF t < 0 THEN 10 ELSE IF t < 10 THEN 1 ELSE 1 + Digits(t \div 10)

\* boundary = "----ScareCrowBoundary" + String(millis())
BoundaryLen(t) == 21 + Digits(t)
\* bodyStart: two boundary lines, the device_id part with its value, the
\* headers of the image part
BodyStartLen(b, c) == (2 + b + 2) + 52 + (strlen(c.deviceId) + 2) + (2 + b + 2) + 70 + 28
\* bodyEnd = "\r\n--" + boundary + "--\r\n"
BodyEndLen(b) == 4 + b + 4

\* uploadImage: the size of a write, were it always a full chunk
ToSendFull(remaining, chunkSize) == chunkSize
\* uploadImage: toSend = (remaining < chunkSize) ? remaining : chunkSize
ToSend(remaining, chunkSize) == IF remaining < chunkSize THEN remaining ELSE chunkSize

InitUpload ==
    /\ fw = "v2" /\ pc = "upload_head"
    /\ now \in UploadStarts /\ ticks = 0
    /\ prefs = NoPrefs
    /\ config = LoadConfigV2(NoPrefs)
    /\ isConfigMode = FALSE /\ isConnected = TRUE
    /\ serverReachable = TRUE
    /\ lastMotionDetected = 0 /\ lastConfigFetch = 0 /\ lastServerCheck = 0
    /\ buttonPressed = FALSE /\ buttonPressStart = 0 /\ currentTime = 0
    /\ deviceId = EmptyStr /\ serverUrl = EmptyStr /\ wifiSSID = EmptyStr
    /\ wifiPass = EmptyStr /\ inPortalMode = FALSE /\ wifiConnected = FALSE
    /\ lastTrigger = 0
    /\ servoDuration = DEFAULT_SERVO_DURATION
    /\ servo1 = 90 /\ servo2 = 90 /\ ledOn = FALSE /\ buzzerOn = FALSE
    /\ startTime = 0 /\ pos = 0
    /\ fbHeld = 1 /\ capRet = "none" /\ httpResp = NoResp
    /\ linkUp = TRUE /\ joinCalls = 1 /\ joinPolls = 0 /\ portalCalls = 0
    /\ trig = NoTrigger /\ cap = NoCapture /\ saved = NoSave
    /\ statusLed = patternUpload(now)
    /\ uploadCount = 0 /\ lastUploadTime = 0 /\ detectionCount = 0 /\ lastDetectionTime = 0
    /\ calls = <<>> /\ netOp = NoNetOp
    /\ resetPinLow = FALSE /\ hold = NoHold /\ ledTrace = NoLedTrace /\ wait = NoWait
    /\ served = NoServed
    /\ \E n \in ImageLens : body = [NoBody EXCEPT !.len = n]

\* what no step of the sending touches
UploadFrame ==
    UNCHANGED <<fw, timeVars, prefs, v2Vars, v30Vars, lastConfigFetch, detVars, fbHeld, capRet,
                httpResp, obsVars, statusLed, statVars, calls, netOp, resetPinLow, hold,
                ledTrace, wait, served>>

\* uploadImage: the boundary, the request line and the headers with
\* Content-Length, and client.print(bodyStart)
UploadHead ==
    LET b == BoundaryLen(millis) IN
    /\ pc = "upload_head"
    /\ body' = [body EXCEPT !.boundary = b,
                            !.contentLength = BodyStartLen(b, config) + body.len
                                              + BodyEndLen(b),
                            !.sent = BodyStartLen(b, config),
                            !.i = 0]
    /\ pc' = "upload_chunk"
    /\ UploadFrame

\* uploadImage: the test of the for loop and one turn of it, or the loop is
\* left
UploadChunk ==
    LET chunkSize == 1024
        remaining == body.len - body.i
        toSend == ToSend(remaining, chunkSize)
    IN
    /\ pc = "upload_chunk"
    /\ IF body.i < body.len
       THEN /\ body' = [body EXCEPT !.writes = Append(@, [at |-> body.i, size |-> toSend]),
                                    !.sent = @ + toSend,
                                    !.i = @ + chunkSize]
            /\ pc' = "upload_chunk"
       ELSE /\ pc' = "upload_tail"
            /\ UNCHANGED body
    /\ UploadFrame

\* uploadImage: client.print(bodyEnd)
UploadTail ==
    /\ pc = "upload_tail"
    /\ body' = [body EXCEPT !.sent = @ + BodyEndLen(body.boundary)]
    /\ pc' = "upload_sent"
    /\ UploadFrame

NextUpload == UploadHead \/ UploadChunk \/ UploadTail

SpecUpload == InitUpload /\ [][NextUpload]_vars

(***************************************************************************)
(* SpecButton: a v2 device, fresh or provisioned, and its reset button.    *)
(* The user presses and releases the button at any point of the loop; the  *)
(* quiet minutes between two sensor events go by with the button up and    *)
(* seen up by the polls.                                                   *)
(***************************************************************************)
\* everything but the button
deviceVars == <<fw, pc, timeVars, prefs, v2Vars, v30Vars, lastConfigFetch, detVars, fbHeld,
                capRet, httpResp, obsVars, statusLed, statVars, calls, netOp>>

\* the reset button goes down: PIN_RESET_BUTTON reads LOW from now on
Press ==
    /\ ~resetPinLow /\ pc /= "restart"
    /\ resetPinLow' = TRUE
    /\ hold' = [hold EXCEPT !.since = now]
    /\ UNCHANGED <<deviceVars, ledTrace, wait, served, body>>

\* the reset button goes up, the device not having restarted
Release ==
    /\ resetPinLow /\ pc /= "restart"
    /\ resetPinLow' = FALSE
    /\ hold' = [hold EXCEPT !.last = USub(now, hold.since)]
    /\ UNCHANGED <<deviceVars, ledTrace, wait, served, body>>

InitButton ==
    /\ fw = "v2"
    /\ pc = "boot"
    /\ prefs \in {NoPrefs, ProvisionedPrefs("v2")}
    /\ config = ZeroConfig
    /\ Idle
    /\ ButtonUp

NextButton ==
    \/ Setup(resetPinLow, 0, FALSE, Resp(200, TRUE, TRUE, NoObject))
    \/ CheckResetButton(resetPinLow)
    \/ HandleClient(NoRequest)
    \/ \E a \in {0, ANALOG_SENSOR_THRESHOLD} : SensorPoll(FALSE, a)
    \/ CaptureBegin(TRUE)
    \/ CaptureUpload(Reply(TRUE, 200, FALSE, FALSE))
    \/ AfterCapture
    \/ Periodic(Resp(200, TRUE, TRUE, NoObject), 200)
    \/ EndOfLoop(100)
    \/ (~resetPinLow /\ ~buttonPressed /\ EndOfLoop(60000))
    \/ Restart
    \/ Press
    \/ Release

SpecButton == InitButton /\ [][NextButton]_vars

(***************************************************************************)
(* SpecCapture: a provisioned v2 device seen from its trigger cycle: the   *)
(* camera gives a frame or none, the server answers the upload in every    *)
(* way, the profile switches the automatic deterrent on or off, and the    *)
(* network may go away after the device joined it.                         *)
(***************************************************************************)
\* config responses: the defaults, the automatic deterrent off, no answer
CaptureResponses ==
    {Resp(200, TRUE, TRUE, NoObject),
     Resp(200, TRUE, TRUE, Only("auto_deterrent", JBool(FALSE))),
     Resp(-1, FALSE, FALSE, NoObject)}

\* replies to an upload attempt: those of UploadReplies, a 500 whose body
\* holds "success", a 404 with "200" in a header line
CaptureReplies ==
    UploadReplies \cup {Reply(TRUE, 500, FALSE, TRUE), Reply(TRUE, 404, TRUE, FALSE)}

\* the access point goes away: WiFi.status() is no longer WL_CONNECTED
LinkDrop ==
    /\ pc \notin {"boot", "restart"}
    /\ linkUp
    /\ linkUp' = FALSE
    /\ UNCHANGED <<fw, pc, timeVars, prefs, v2Vars, v30Vars, lastConfigFetch, detVars, fbHeld,
                   capRet, httpResp, joinCalls, joinPolls, portalCalls, trig, cap, saved,
                   auxVars>>

InitCapture ==
    /\ fw = "v2"
    /\ pc = "boot"
    /\ prefs = ProvisionedPrefs("v2")
    /\ config = ZeroConfig
    /\ Idle
    /\ ButtonUp

\* (no server answers over a link that is down; a server that answers the
\* config fetch answers the reachability check)
NextCapture ==
    \/ \E r \in CaptureResponses : Setup(FALSE, 0, FALSE, r)
    \/ CheckResetButton(FALSE)
    \/ HandleClient(NoRequest)
    \/ \E a \in {0, ANALOG_SENSOR_THRESHOLD} : SensorPoll(FALSE, a)
    \/ \E fbOk \in BOOLEAN : CaptureBegin(fbOk)
    \/ \E rp \in CaptureReplies : (linkUp \/ ~rp.connected) /\ CaptureUpload(rp)
    \/ AfterCapture
    \/ \E r \in CaptureResponses : (linkUp \/ r.code = -1) /\ Periodic(r, r.code)
    \/ \E d \in Steps : EndOfLoop(d)
    \/ LinkDrop

SpecCapture == InitCapture /\ [][NextCapture]_vars

(***************************************************************************)
(* SpecTest: a provisioned v2 device in station mode whose status server   *)
(* is asked for a test capture at any iteration of loop, between and       *)
(* within the cooldowns of the sensor's triggers.                          *)
(***************************************************************************)
InitTest == InitCapture

NextTest ==
    \/ Setup(FALSE, 0, FALSE, Resp(200, TRUE, TRUE, NoObject))
    \/ CheckResetButton(FALSE)
    \/ \E req \in {NoRequest, Get("/test")} : HandleClient(req)
    \/ \E a \in {0, ANALOG_SENSOR_THRESHOLD} : SensorPoll(FALSE, a)
    \/ \E fbOk \in BOOLEAN : CaptureBegin(fbOk)
    \/ \E rp \in {Reply(TRUE, 200, FALSE, FALSE), Reply(FALSE, 0, FALSE, FALSE)} :
          CaptureUpload(rp)
    \/ AfterCapture
    \/ Periodic(Resp(200, TRUE, TRUE, NoObject), 200)
    \/ \E d \in Steps : EndOfLoop(d)

SpecTest == InitTest /\ [][NextTest]_vars

(***************************************************************************)
(* SpecV31: the life of a v3.1 device from power-on, with a network that   *)
(* comes and goes and a server that may push a servo duration or a new     *)
(* server address.                                                         *)
(***************************************************************************)
\* the access point is back and the station has associated again while loop
\* sleeps: WiFi.status() is WL_CONNECTED
LinkRestore ==
    /\ pc = "tick"
    /\ ~linkUp
    /\ linkUp' = TRUE
    /\ UNCHANGED <<fw, pc, timeVars, prefs, v2Vars, v30Vars, lastConfigFetch, detVars, fbHeld,
                   capRet, httpResp, joinCalls, joinPolls, portalCalls, trig, cap, saved,
                   auxVars>>

\* config responses of the server in the life of a v3.1 device
ResponsesV31 ==
    {Resp(200, TRUE, TRUE, NoObject),
     Resp(200, TRUE, TRUE, Only("servo_duration", JInt(2))),
     Resp(200, TRUE, TRUE, Only("server_url", JStr(PushedServerUrl))),
     Resp(-1, FALSE, FALSE, NoObject)}

InitV31 ==
    /\ fw = "v31"
    /\ pc = "boot"
    /\ prefs = NoPrefs
    /\ config = ZeroConfig
    /\ Idle
    /\ ButtonUp

\* (no server answers over a link that is down; the link is seen to go before
\* the sensor is read or while loop sleeps, and to come back while it sleeps)
NextV31 ==
    \/ \E upAt \in JoinTimes(WIFI_POLLS_V31) : SetupV31(upAt)
    \/ \E upAt \in {0, WIFI_POLLS_V31 + 1} : LoopHeadV31(upAt)
    \/ \E a \in {0, SENSOR_THRESHOLD} : SensorPollV31(a)
    \/ \E fbOk \in BOOLEAN, code \in {200, -1} :
          (linkUp \/ code = -1) /\ CaptureAndUploadV31(fbOk, code)
    \/ AfterCaptureV31
    \/ \E r \in ResponsesV31 : (linkUp \/ r.code = -1) /\ PeriodicV31(r)
    \/ \E d \in Steps : ticks < MaxLoops /\ EndOfLoop(d)
    \/ (pc \in {"sensor", "tick"} /\ LinkDrop)
    \/ LinkRestore

SpecV31 == InitV31 /\ [][NextV31]_vars

(***************************************************************************)
(* SpecConfigV31: a v3.1 device on a steady network whose server answers   *)
(* the periodic config GET with any servo_duration, and whose power may    *)
(* fail between any two steps of loop.                                     *)
(***************************************************************************)
\* the values of servo_duration a response may hold: around the two ends of
\* the range, negative, 4294968 and 2147483647 (the product leaves 32 bits),
\* 2^29 + 2 (the product wraps to 2000), and one that fits no integer
ServoDurationValues ==
    {JInt(0), JInt(-5), JInt(1), JInt(2), JInt(20), JInt(60), JInt(61), JInt(4294968),
     JInt(536870914), JInt(2147483647), JBig}

ConfigResponsesV31 ==
    {Resp(200, TRUE, TRUE, Only("servo_duration", v)) : v \in ServoDurationValues}
    \cup {Resp(200, TRUE, TRUE, NoObject),
          Resp(200, TRUE, TRUE, Only("server_url", JStr(PushedServerUrl))),
          Resp(200, FALSE, FALSE, NoObject),
          Resp(-1, FALSE, FALSE, NoObject)}

\* the supply fails while loop runs and comes back: the chip starts again
PowerLossV31 ==
    /\ fw = "v31"
    /\ pc \in {"loop", "sensor", "periodic", "tick"}
    /\ pc' = "restart"
    /\ UNCHANGED <<fw, timeVars, prefs, v2Vars, v30Vars, lastConfigFetch, detVars, fbHeld,
                   capRet, httpResp, obsVars, auxVars>>

InitConfigV31 == InitV31

NextConfigV31 ==
    \/ SetupV31(0)
    \/ LoopHeadV31(0)
    \/ SensorPollV31(0)
    \/ \E r \in ConfigResponsesV31 : PeriodicV31(r)
    \/ \E d \in {100, CONFIG_FETCH_INTERVAL} : EndOfLoop(d)
    \/ PowerLossV31
    \/ Restart

SpecConfigV31 == InitConfigV31 /\ [][NextConfigV31]_vars

(***************************************************************************)
(* SpecPoll: a connected device (v2 provisioned, v3.1) whose loop turns    *)
(* every 100 ms or is held up for 30 s, with triggers in between, seen     *)
(* from its periodic config fetch.                                         *)
(***************************************************************************)
InitPoll ==
    /\ fw \in {"v2", "v31"}
    /\ pc = "boot"
    /\ prefs = (IF fw = "v2" THEN ProvisionedPrefs("v2") ELSE NoPrefs)
    /\ config = ZeroConfig
    /\ Idle
    /\ ButtonUp

NextPoll ==
    \/ Setup(FALSE, 0, FALSE, Resp(200, TRUE, TRUE, NoObject))
    \/ CheckResetButton(FALSE)
    \/ HandleClient(NoRequest)
    \/ \E a \in {0, ANALOG_SENSOR_THRESHOLD} : SensorPoll(FALSE, a)
    \/ CaptureBegin(TRUE)
    \/ CaptureUpload(Reply(TRUE, 200, FALSE, FALSE))
    \/ AfterCapture
    \/ \E code \in {200, -1} : Periodic(Resp(200, TRUE, TRUE, NoObject), code)
    \/ SetupV31(0)
    \/ LoopHeadV31(0)
    \/ \E a \in {0, SENSOR_THRESHOLD} : SensorPollV31(a)
    \/ CaptureAndUploadV31(TRUE, 200)
    \/ AfterCaptureV31
    \/ \E r \in {Resp(200, TRUE, TRUE, NoObject), Resp(-1, FALSE, FALSE, NoObject)} :
          PeriodicV31(r)
    \/ \E d \in {100, CONFIG_FETCH_INTERVAL} : EndOfLoop(d)

SpecPoll == InitPoll /\ [][NextPoll]_vars

(***************************************************************************)
(* SpecDeterrent: one run of the deterrent, step by step, from the point   *)
(* in the trigger branch where activateDeterrent is called.  v2 runs it    *)
(* under a profile a config sync has applied; v3.1 (unnamed/part_001)      *)
(* under the servo duration a config fetch has set.                        *)
(***************************************************************************)
\* the actuator part of a config response
DeterrentObject(speed, duration, angle, pattern, sound) ==
    [servo_speed |-> JInt(speed), servo_duration |-> JInt(duration),
     servo_angle |-> JInt(angle), led_pattern |-> JStr(pattern),
     led_speed_ms |-> JInt(200), led_duration_sec |-> JInt(1),
     sound_type |-> JStr(sound), sound_duration_sec |-> JInt(1)]
DeterrentObjects ==
    {NoObject}
    \cup {DeterrentObject(sd[1], sd[2], a, "blink", "beep") :
            sd \in {<<90, 1>>, <<3, 1>>, <<1, 3>>}, a \in {180, 20}}
    \cup {DeterrentObject(90, 1, 20, "solid", "siren"),
          DeterrentObject(90, 1, 20, "blink", "chirp"),
          \* the LED on for an hour
          [DeterrentObject(90, 1, 20, "solid", "beep")
             EXCEPT !.led_duration_sec = JInt(3600)]}

\* servo durations of v3.1: the default, and what fetchConfig stores for a
\* servo_duration of 1 or 2 seconds
DurationsV31 == {DEFAULT_SERVO_DURATION, 1000, 2000}

\* millis() when activateDeterrent of v3.1 is called: a minute after boot,
\* 30 s before the clock wraps (the run ends before the wrap), and 5 s before
\* it wraps (startTime + servoDuration is beyond 2^32 - 1)
DeterrentStartsV31 == {COOLDOWN_SECONDS * 1000 + 6600, -30000, -5000}

InitDeterrent ==
    /\ fw \in {"v2", "v31"}
    /\ pc = "deterrent"
    /\ now \in (IF fw = "v2" THEN {COOLDOWN_SECONDS * 1000 + 6600} ELSE DeterrentStartsV31)
    /\ ticks = 1
    /\ IF fw = "v2"
       THEN /\ prefs = ProvisionedPrefs("v2")
            /\ config \in {ApplyRemoteConfig(LoadConfigV2(prefs), o) : o \in DeterrentObjects}
            /\ isConnected = TRUE /\ serverReachable = TRUE
            /\ currentTime = now - 500
            /\ trig = Honored(NoTrigger, now - 500, CooldownMs(config))
            /\ deviceId = EmptyStr /\ serverUrl = EmptyStr
            /\ wifiConnected = FALSE /\ lastTrigger = 0
            /\ servoDuration = DEFAULT_SERVO_DURATION
       ELSE /\ config = ZeroConfig
            /\ isConnected = FALSE /\ serverReachable = FALSE
            /\ currentTime = 0
            /\ trig = Honored(NoTrigger, now - 700, COOLDOWN_SECONDS * 1000)
            /\ wifiConnected = TRUE /\ lastTrigger = now - 700
            /\ servoDuration \in DurationsV31
            /\ prefs = IF servoDuration = DEFAULT_SERVO_DURATION
                       THEN LoadedPrefsV30(NoPrefs)
                       ELSE PrefsPut(LoadedPrefsV30(NoPrefs), "servoDur", servoDuration)
            /\ deviceId = PrefsGet(prefs, "deviceId", EmptyStr)
            /\ serverUrl = PrefsGet(prefs, "serverUrl", DEFAULT_SERVER_URL)
    /\ isConfigMode = FALSE
    /\ lastMotionDetected = 0 /\ lastConfigFetch = 0 /\ lastServerCheck = 0
    /\ buttonPressed = FALSE /\ buttonPressStart = 0
    /\ wifiSSID = EmptyStr /\ wifiPass = EmptyStr /\ inPortalMode = FALSE
    /\ servo1 = 90 /\ servo2 = 90 /\ ledOn = FALSE /\ buzzerOn = FALSE
    /\ startTime = 0 /\ pos = 0
    /\ fbHeld = 0 /\ capRet = "trigger" /\ httpResp = NoResp
    /\ linkUp = TRUE /\ joinCalls = 1 /\ joinPolls = 0 /\ portalCalls = 0
    /\ cap = [gets |-> 1, returns |-> 1, outcome |-> "ok", attempts |-> 1,
              reply |-> Reply(TRUE, 200, FALSE, FALSE)]
    /\ saved = NoSave
    /\ statusLed = IF fw = "v2" THEN off(patternUpload(now)) ELSE StatusLED
    /\ uploadCount = (IF fw = "v2" THEN 1 ELSE 0)
    /\ lastUploadTime = (IF fw = "v2" THEN now ELSE 0)
    /\ detectionCount = (IF fw = "v2" THEN 1 ELSE 0)
    /\ lastDetectionTime = (IF fw = "v2" THEN now - 500 ELSE 0)
    /\ calls = <<"capture", "upload">>
    /\ netOp = NetOp("upload", now, TRUE)
    /\ ButtonUp

\* what a deterrent step leaves alone
DeterrentFrame ==
    UNCHANGED <<fw, statVars, netOp, envVars, ticks, prefs, config, isConfigMode, isConnected, serverReachable,
                lastServerCheck, buttonPressed, buttonPressStart, currentTime, v30Vars,
                lastConfigFetch, servoDuration, fbHeld, capRet, httpResp, obsVars>>

\* delay(1000 / config.servoSpeed)
ServoStepMs(c) == 1000 \div c.servoSpeed

\* activateDeterrent, waveServos up to its while
ActivateDeterrent ==
    /\ fw = "v2" /\ pc = "deterrent" /\ config.autoDeterrent
    /\ startTime' = millis
    /\ pc' = "wave_while"
    /\ calls' = Append(calls, "deterrent")
    /\ UNCHANGED <<statusLed, now, servo1, servo2, ledOn, buzzerOn, pos, lastMotionDetected>>
    /\ DeterrentFrame

\* waveServos: the while condition; the up sweep starts or the servos are
\* centred and waveServos returns
WaveWhile ==
    /\ fw = "v2" /\ pc = "wave_while"
    /\ IF ULess(USub(millis, startTime), config.servoDuration * 1000)
       THEN /\ pos' = 0
            /\ pc' = IF 0 <= config.servoAngle THEN "wave_up" ELSE "wave_down"
            /\ UNCHANGED <<servo1, servo2>>
       ELSE /\ servo1' = 90 /\ servo2' = 90
            /\ pc' = "flash"
            /\ UNCHANGED pos
    /\ UNCHANGED <<statusLed, calls, now, ledOn, buzzerOn, startTime, lastMotionDetected>>
    /\ DeterrentFrame

\* the second servo mirrored about 180 degrees whatever the sweep angle
MirrorFixed(angle, p) == 180 - p
\* waveServos: the angle written to servo2 when p is written to servo1
Mirror(angle, p) == angle - p

\* waveServos: one step of the up sweep; its break leaves the for loop only
WaveUp ==
    /\ fw = "v2" /\ pc = "wave_up" /\ config.servoSpeed > 0
    /\ servo1' = pos /\ servo2' = Mirror(config.servoAngle, pos)
    /\ now' = UAdd(now, ServoStepMs(config))
    /\ IF UGeq(USub(now', startTime), config.servoDuration * 1000)
          \/ pos + 5 > config.servoAngle
       THEN pc' = "wave_down" /\ pos' = config.servoAngle
       ELSE pc' = "wave_up" /\ pos' = pos + 5
    /\ UNCHANGED <<statusLed, calls, ledOn, buzzerOn, startTime, lastMotionDetected>>
    /\ DeterrentFrame

\* waveServos: one step of the down sweep
WaveDown ==
    /\ fw = "v2" /\ pc = "wave_down" /\ config.servoSpeed > 0
    /\ IF pos >= 0
       THEN /\ servo1' = pos /\ servo2' = Mirror(config.servoAngle, pos)
            /\ now' = UAdd(now, ServoStepMs(config))
            /\ IF UGeq(USub(now', startTime), config.servoDuration * 1000)
                  \/ pos - 5 < 0
               THEN pc' = "wave_while" /\ pos' = pos
               ELSE pc' = "wave_down" /\ pos' = pos - 5
       ELSE /\ pc' = "wave_while"
            /\ UNCHANGED <<servo1, servo2, now, pos>>
    /\ UNCHANGED <<statusLed, calls, ledOn, buzzerOn, startTime, lastMotionDetected>>
    /\ DeterrentFrame


\* flashLED up to its delay or its while
FlashLed ==
    /\ fw = "v2" /\ pc = "flash"
    /\ startTime' = millis
    /\ IF config.ledPattern = "solid"
       THEN /\ ledOn' = TRUE /\ statusLed' = solid(statusLed, TRUE)
            /\ pc' = "flash_solid"
       ELSE /\ UNCHANGED <<ledOn, statusLed>>
            /\ pc' = "flash_while"
    /\ UNCHANGED <<calls, now, servo1, servo2, buzzerOn, pos, lastMotionDetected>>
    /\ DeterrentFrame

\* flashLED, pattern solid: delay(duration), off
FlashSolid ==
    /\ fw = "v2" /\ pc = "flash_solid"
    /\ now' = UAdd(now, config.ledDurationSec * 1000)
    /\ ledOn' = FALSE
    /\ pc' = "alarm"
    /\ statusLed' = solid(statusLed, ledOn')
    /\ UNCHANGED <<calls, servo1, servo2, buzzerOn, startTime, pos, lastMotionDetected>>
    /\ DeterrentFrame

\* flashLED, the other patterns: the while condition and the on half of a blink
FlashWhile ==
    /\ fw = "v2" /\ pc = "flash_while"
    /\ IF ULess(USub(millis, startTime), config.ledDurationSec * 1000)
       THEN /\ ledOn' = TRUE /\ statusLed' = solid(statusLed, TRUE)
            /\ now' = UAdd(now, config.ledSpeedMs)
            /\ pc' = "flash_off"
       ELSE /\ pc' = "alarm"
            /\ UNCHANGED <<ledOn, statusLed, now>>
    /\ UNCHANGED <<calls, servo1, servo2, buzzerOn, startTime, pos, lastMotionDetected>>
    /\ DeterrentFrame

\* flashLED: the off half of a blink
FlashOff ==
    /\ fw = "v2" /\ pc = "flash_off"
    /\ ledOn' = FALSE
    /\ now' = UAdd(now, config.ledSpeedMs)
    /\ pc' = "flash_while"
    /\ statusLed' = solid(statusLed, ledOn')
    /\ UNCHANGED <<calls, servo1, servo2, buzzerOn, startTime, pos, lastMotionDetected>>
    /\ DeterrentFrame

\* playAlarm up to its while
PlayAlarm ==
    /\ fw = "v2" /\ pc = "alarm"
    /\ startTime' = millis
    /\ pc' = "alarm_while"
    /\ UNCHANGED <<statusLed, calls, now, servo1, servo2, ledOn, buzzerOn, pos, lastMotionDetected>>
    /\ DeterrentFrame

\* playAlarm: the while condition; a tone of 200 ms (beep) or the 40 tones of
\* 20 ms of a siren sweep start, or noTone and playAlarm, activateDeterrent return
AlarmWhile ==
    /\ fw = "v2" /\ pc = "alarm_while"
    /\ IF config.soundType \in {"beep", "siren"}
          /\ ULess(USub(millis, startTime), config.soundDurationSec * 1000)
       THEN /\ buzzerOn' = TRUE
            /\ now' = UAdd(now, IF config.soundType = "beep" THEN 200 ELSE 40 * 20)
            /\ pc' = "alarm_rest"
       ELSE /\ buzzerOn' = FALSE
            /\ pc' = "returned"
            /\ UNCHANGED now
    /\ UNCHANGED <<statusLed, calls, servo1, servo2, ledOn, startTime, pos, lastMotionDetected>>
    /\ DeterrentFrame

\* playAlarm: the tone is over; the rest of the delay(300) of a beep
AlarmRest ==
    /\ fw = "v2" /\ pc = "alarm_rest"
    /\ buzzerOn' = FALSE
    /\ now' = UAdd(now, IF config.soundType = "beep" THEN 100 ELSE 0)
    /\ pc' = "alarm_while"
    /\ UNCHANGED <<statusLed, calls, servo1, servo2, ledOn, startTime, pos, lastMotionDetected>>
    /\ DeterrentFrame

\* the trigger branch after activateDeterrent
DeterrentReturn ==
    /\ fw = "v2" /\ pc = "returned"
    /\ lastMotionDetected' = currentTime
    /\ pc' = "periodic"
    /\ UNCHANGED <<statusLed, calls, now, servo1, servo2, ledOn, buzzerOn, startTime, pos>>
    /\ DeterrentFrame

\* v3.1, activateDeterrent: endTime
EndTime == UAdd(startTime, servoDuration)

\* v3.1, activateDeterrent up to its while
ActivateDeterrentV31 ==
    /\ fw = "v31" /\ pc = "deterrent"
    /\ startTime' = millis
    /\ pc' = "wave_while"
    /\ calls' = Append(calls, "deterrent")
    /\ UNCHANGED <<statusLed, now, servo1, servo2, ledOn, buzzerOn, pos, lastMotionDetected>>
    /\ DeterrentFrame

\* v3.1: the while condition and the first half of a wave, or the servos are
\* centred and the buzzer is set LOW
WaveV31 ==
    /\ fw = "v31" /\ pc = "wave_while"
    /\ IF ULess(millis, EndTime)
       THEN /\ servo1' = 45 /\ servo2' = 135
            /\ now' = UAdd(now, 300)
            /\ pc' = IF UGeq(now', EndTime) THEN "centre" ELSE "wave_back"
       ELSE /\ pc' = "centre"
            /\ UNCHANGED <<servo1, servo2, now>>
    /\ UNCHANGED <<statusLed, calls, ledOn, buzzerOn, startTime, pos, lastMotionDetected>>
    /\ DeterrentFrame

\* v3.1: the second half of a wave; the buzzer goes HIGH
WaveBackV31 ==
    /\ fw = "v31" /\ pc = "wave_back"
    /\ servo1' = 135 /\ servo2' = 45
    /\ now' = UAdd(now, 300)
    /\ buzzerOn' = TRUE
    /\ pc' = "wave_beep"
    /\ UNCHANGED <<statusLed, calls, ledOn, startTime, pos, lastMotionDetected>>
    /\ DeterrentFrame

\* v3.1: the beep of 50 ms ends
BeepV31 ==
    /\ fw = "v31" /\ pc = "wave_beep"
    /\ now' = UAdd(now, 50)
    /\ buzzerOn' = FALSE
    /\ pc' = "wave_while"
    /\ UNCHANGED <<statusLed, calls, servo1, servo2, ledOn, startTime, pos, lastMotionDetected>>
    /\ DeterrentFrame

\* v3.1: the servos are centred, the buzzer is set LOW, blinkLED(5, 50) runs
\* and activateDeterrent returns
CentreV31 ==
    /\ fw = "v31" /\ pc = "centre"
    /\ servo1' = 90 /\ servo2' = 90
    /\ buzzerOn' = FALSE
    /\ ledOn' = FALSE
    /\ now' = UAdd(now, 5 * (50 + 50))
    /\ pc' = "returned"
    /\ UNCHANGED <<statusLed, calls, startTime, pos, lastMotionDetected>>
    /\ DeterrentFrame

NextDeterrent ==
    \/ ActivateDeterrent \/ WaveWhile \/ WaveUp \/ WaveDown
    \/ FlashLed \/ FlashSolid \/ FlashWhile \/ FlashOff
    \/ PlayAlarm \/ AlarmWhile \/ AlarmRest \/ DeterrentReturn
    \/ ActivateDeterrentV31 \/ WaveV31 \/ WaveBackV31 \/ BeepV31 \/ CentreV31

SpecDeterrent == InitDeterrent /\ [][NextDeterrent]_vars

(***************************************************************************)
(* Triggering, capture and provisioning: the claims.                       *)
(***************************************************************************)
\* C1: any two consecutively honored triggers have timestamps at least the
\* cooldown apart, the cooldown being the one in effect when the second
\* trigger was evaluated (config.cooldownSec * 1000 in v2, COOLDOWN_SECONDS *
\* 1000 in v3.0), whatever readings and config syncs came in between.
CooldownInvariant ==
    trig.prev /= -1 => UGeq(USub(trig.last, trig.prev), trig.cooldownMs)

\* C1 witness: v2 honored a trigger under the default cooldown, a sync then
\* doubled the cooldown, and a second trigger has been honored under it.
CooldownInvariantWitness ==
    /\ fw = "v2" /\ pc = "capture"
    /\ trig.prev /= -1
    /\ trig.prevCooldownMs = DEFAULT_COOLDOWN_SEC * 1000
    /\ trig.cooldownMs = 120000
    /\ config.cooldownSec = 120

\* C2: a frame buffer obtained by captureAndUpload is returned exactly once
\* before captureAndUpload returns, whatever the upload did; nothing is
\* returned when acquisition fails; outside captureAndUpload no buffer is
\* held, and never more than one.
BufferReleased ==
    /\ fbHeld \in {0, 1}
    /\ pc /= "upload" => fbHeld = 0
    /\ (pc /= "upload" /\ cap.outcome /= "none") =>
          /\ cap.returns = cap.gets
          /\ cap.gets = IF cap.outcome = "capture_failed" THEN 0 ELSE 1

\* C2 witness: a capture made on a trigger has returned after its upload
\* timed out, and the buffer is back.
BufferReleasedWitness ==
    /\ pc = "deterrent" /\ capRet = "trigger"
    /\ cap.outcome = "timeout" /\ cap.gets = 1 /\ cap.returns = 1
    /\ fbHeld = 0

\* C8: in v2, when credentials are stored and the link is not up within the
\* 40 polls, the device is in portal mode from the end of setup on, after
\* exactly one connectToWiFi call of 40 polls and exactly one
\* startCaptivePortal call, until it restarts.
FailedJoinFallsBackOnce ==
    (fw = "v2" /\ pc /= "boot" /\ joinCalls >= 1 /\ ~linkUp) =>
        /\ isConfigMode /\ ~isConnected
        /\ joinCalls = 1 /\ joinPolls = WIFI_POLLS_V2
        /\ portalCalls = 1

\* C8 witness: a v2 device with stored credentials failed to join and has
\* gone round its loop in portal mode.
FailedJoinFallsBackOnceWitness ==
    /\ fw = "v2" /\ pc = "tick" /\ ticks >= 1
    /\ strlen(config.wifiSSID) > 0
    /\ joinCalls = 1 /\ ~linkUp /\ joinPolls = WIFI_POLLS_V2
    /\ isConfigMode /\ portalCalls = 1

\* the device is in portal mode
PortalMode == IF fw = "v2" THEN isConfigMode ELSE inPortalMode
\* the SSID in the store
StoredSsid == PrefsGet(prefs, "wifiSSID", EmptyStr)

\* C9: once setup has run, a join has been attempted exactly when the stored
\* SSID is not empty; with no stored SSID the device is in portal mode and
\* WiFi.begin has not been called.
BootModeBySsid ==
    pc \notin {"boot", "restart"} =>
        /\ strlen(StoredSsid) = 0 => (PortalMode /\ joinCalls = 0)
        /\ strlen(StoredSsid) > 0 => joinCalls = 1

\* C9 witness: a v3.0 device with nothing but its device id in the store runs
\* its loop in portal mode without having tried to join.
BootModeBySsidWitness ==
    /\ fw = "v30" /\ pc = "tick"
    /\ "deviceId" \in DOMAIN prefs /\ strlen(StoredSsid) = 0
    /\ inPortalMode /\ joinCalls = 0 /\ ~wifiConnected

\* what the store holds for a submitted argument cut to n characters
Kept(a, n) == Str(a.id, Min(a.len, n))

\* C10 (as claimed): once a portal submission has been handled, the store
\* holds the submitted SSID, password and server URL and the device is
\* restarting.
PortalSubmissionRestarts ==
    saved.kind = "save" =>
        /\ pc = "restart"
        /\ saved.ssid /= Absent => PrefsGet(prefs, "wifiSSID", Absent) = saved.ssid
        /\ saved.password /= Absent =>
              PrefsGet(prefs, IF fw = "v2" THEN "wifiPassword" ELSE "wifiPass", Absent)
                 = saved.password
        /\ saved.server /= Absent => PrefsGet(prefs, "serverUrl", Absent) = saved.server

\* C10 (amended): once a portal submission with a non-empty SSID has been
\* handled, the device is restarting and the store holds what was submitted:
\* in v2 the SSID, and the password and the server URL if they were sent, cut
\* to 63, 63 and 127 characters; in v3.0 the SSID, the password and the server
\* URL as sent, empty if not sent.  v2 restarts after a submission without an
\* SSID as well.  While in portal mode no step calls WiFi.begin or leaves
\* portal mode, until the restart.
PortalSaveThenRestart ==
    /\ [](/\ (saved.kind = "save" /\ saved.ssid /= Absent /\ strlen(saved.ssid) > 0) =>
               /\ pc = "restart"
               /\ fw = "v2" =>
                    /\ PrefsGet(prefs, "wifiSSID", Absent) = Kept(saved.ssid, 63)
                    /\ saved.password /= Absent =>
                          PrefsGet(prefs, "wifiPassword", Absent) = Kept(saved.password, 63)
                    /\ saved.server /= Absent =>
                          PrefsGet(prefs, "serverUrl", Absent) = Kept(saved.server, 127)
               /\ fw = "v30" =>
                    /\ PrefsGet(prefs, "wifiSSID", Absent) = saved.ssid
                    /\ PrefsGet(prefs, "wifiPass", Absent) = ArgOf(saved.password)
                    /\ PrefsGet(prefs, "serverUrl", Absent) = ArgOf(saved.server)
          /\ (saved.kind = "save" /\ fw = "v2") => pc = "restart")
    /\ [][(PortalMode /\ pc /= "restart") =>
            /\ PortalMode'
            /\ joinCalls' = joinCalls
            /\ ~isConnected' /\ ~wifiConnected']_vars

\* C10 witness: v2 has handled a submission whose SSID is longer than its
\* buffer; the first 63 characters are in the store and the restart is due.
PortalSaveThenRestartWitness ==
    /\ fw = "v2" /\ pc = "restart" /\ isConfigMode
    /\ saved.kind = "save" /\ strlen(saved.ssid) = 70
    /\ PrefsGet(prefs, "wifiSSID", Absent) = Str(saved.ssid.id, 63)

\* C11 (as claimed): no hold of the reset button of a running v2 device ends
\* without clearConfig and a restart once it has lasted the hold time; the
\* check allows twice RESET_BUTTON_HOLD_TIME.
ResetHoldForcesClear ==
    (fw = "v2" /\ pc /= "restart") => hold.last <= 2 * RESET_BUTTON_HOLD_TIME

\* C12 (as claimed): every config fetch, reachability check and upload the
\* v2 station-mode loop issues goes out over a live link: once the link has
\* dropped the loop issues none.
NoRequestOnDeadLink ==
    (fw = "v2" /\ netOp.kind /= "none") => netOp.linkUp

\* C13 (as claimed): a v2 trigger cycle whose frame capture failed is over:
\* it made no upload, runs no deterrent and holds no frame buffer.
CaptureFailureAbortsCycle ==
    (fw = "v2" /\ capRet = "trigger" /\ cap.outcome = "capture_failed") =>
        /\ fbHeld = 0
        /\ \A i \in DOMAIN calls : calls[i] \notin {"upload", "deterrent"}

\* C14 (as claimed): captureAndUpload of v2 makes one upload attempt at most,
\* and the attempt counts as a success (uploadCount, lastUploadTime and
\* serverReachable updated) exactly when the server answered with status 200.
UploadSuccessIff200 ==
    (fw = "v2" /\ cap.attempts > 0) =>
        /\ cap.attempts = 1
        /\ (cap.outcome = "ok") = (cap.reply.status = 200)

\* the status LED shows the error pattern
ErrorPatternActive(led) ==
    /\ led.patternActive
    /\ led.onTime = LED_PATTERN_ERROR_ON /\ led.offTime = LED_PATTERN_ERROR_OFF
    /\ led.blinkCount = LED_PATTERN_ERROR_COUNT

\* C15 (as claimed): when captureAndUpload of v2 returns to the trigger
\* branch, the error pattern is the active pattern of the status LED after a
\* capture failure, a failed connect to the server or a response timeout,
\* and it is not after a successful upload.
PipelineOutcomeOnLed ==
    (fw = "v2" /\ pc = "deterrent") =>
        /\ cap.outcome \in {"capture_failed", "connect_failed", "timeout"}
              => ErrorPatternActive(statusLed)
        /\ cap.outcome = "ok" => ~ErrorPatternActive(statusLed)

\* C18: in the trigger branch of v2 captureAndUpload has been called when
\* the deterrent's turn comes, and activateDeterrent is called then exactly
\* if config.autoDeterrent is true; if it is false the branch ends with no
\* actuator written, the status LED as it was and no time spent; the
\* deterrent is never in the calls of a cycle without a capture before it.
CaptureThenDeterrent ==
    [][(fw = "v2" /\ pc = "deterrent" /\ pc' = "periodic") =>
          /\ calls /= <<>> /\ calls[1] = "capture"
          /\ \A i \in DOMAIN calls : calls[i] /= "deterrent"
          /\ calls' = IF config.autoDeterrent THEN Append(calls, "deterrent") ELSE calls
          /\ ~config.autoDeterrent =>
                /\ UNCHANGED <<detVars, statusLed, now>>]_vars

\* a trigger cycle has ended with the automatic deterrent off, after a
\* capture and an upload
CaptureThenDeterrentWitness ==
    /\ fw = "v2" /\ pc = "periodic"
    /\ ~config.autoDeterrent
    /\ detectionCount > 0 /\ lastMotionDetected = currentTime
    /\ calls = <<"capture", "upload">>

\* C19: the last request of the device is a config fetch only if the device
\* is connected and not in portal mode (v2: isConnected, isConfigMode; v3.0:
\* wifiConnected, inPortalMode): fetchRemoteConfig / fetchConfig issues no
\* GET while the portal is up, nor in station mode without the connection.
FetchOnlyConnected ==
    netOp.kind = "fetch" =>
        IF fw = "v2" THEN isConnected /\ ~isConfigMode
        ELSE wifiConnected /\ ~inPortalMode

\* fetchRemoteConfig was called in portal mode and returned without a request
FetchOnlyConnectedWitness ==
    /\ fw = "v2" /\ pc = "fetched"
    /\ isConfigMode /\ ~isConnected
    /\ netOp = NoNetOp /\ httpResp = NoResp

\* the connected flag
ConnectedFlag == IF fw = "v2" THEN isConnected ELSE wifiConnected
\* setup has joined the network or started the portal
SetupDone == joinCalls > 0 \/ portalCalls > 0

\* C20: once setup has joined the network or started the portal, exactly one
\* of the portal flag and the connected flag is true (v2: isConfigMode,
\* isConnected; v3.0: inPortalMode, wifiConnected), until the restart.
ExactlyOneMode ==
    SetupDone => (PortalMode /= ConnectedFlag)

\* a v2 device in the loop of the portal it started after a failed join
ExactlyOneModeWitness ==
    /\ fw = "v2" /\ pc = "tick"
    /\ joinCalls = 1 /\ portalCalls = 1
    /\ isConfigMode /\ ~isConnected

\* C17: every step of a sweep that moves a servo writes the two of them as a
\* mirrored pair before its delay: in v2 servo1 gets pos and servo2
\* config.servoAngle - pos, in v3.1 the pair is 45/135 or 135/45, so the two
\* commanded angles sum to the sweep angle (v2: config.servoAngle, v3.1: 180).
MirroredPair ==
    [][(pc \in {"wave_up", "wave_down", "wave_back"}
         \/ (pc = "wave_while" /\ fw = "v31"))
       /\ (servo1' /= servo1 \/ servo2' /= servo2)
       => /\ servo1' + servo2' = (IF fw = "v2" THEN config.servoAngle ELSE 180)
          /\ fw = "v2" => servo1' = pos /\ servo2' = config.servoAngle - pos
          /\ now' /= now]_vars

\* v2 is in the middle of a down sweep of 20 degrees, the servos at 15 and 5
MirroredPairWitness ==
    /\ fw = "v2" /\ pc = "wave_down"
    /\ config.servoAngle = 20
    /\ servo1 = 15 /\ servo2 = 5

\* C16 (as claimed): whatever profile a config sync has applied, the v2
\* deterrent has returned within a fixed time of the trigger; the check
\* allows the shortest cooldown, MIN_COOLDOWN_SEC.
DeterrentBounded ==
    (fw = "v2" /\ pc = "returned") =>
        ULess(USub(millis, currentTime), MIN_COOLDOWN_SEC * 1000)

\* C21: with the slow blink started at t0 and update() called every 100 ms,
\* the LED has changed once per full second gone by since t0, each change a
\* whole number of seconds after t0: 5 changes when 5 s have gone by; the
\* calls themselves take no time.
SlowBlinkTransitions ==
    pc = "led" =>
        /\ Len(ledTrace.at) = USub(now, ledTrace.since) \div LED_PATTERN_PORTAL_ON
        /\ \A i \in DOMAIN ledTrace.at : ledTrace.at[i] = i * LED_PATTERN_PORTAL_ON
        /\ USub(now, ledTrace.since) = ticks * 100
        /\ ticks = 50 => Len(ledTrace.at) = 5

\* 5 s after a start 2.5 s before the wrap of millis(): five changes seen
SlowBlinkTransitionsWitness ==
    /\ pc = "led" /\ ticks = 50
    /\ ledTrace.since = -2500 /\ now = 2500
    /\ ledTrace.at = <<1000, 2000, 3000, 4000, 5000>>
    /\ ~statusLed.ledState

\* the keys of the store that hold the identity of the device
IdentityKeys == {"deviceId", "serverUrl", "wifiSSID", "wifiPass"}
\* the identity in the store
StoredIdentity(p) == [k \in IdentityKeys \cap DOMAIN p |-> p[k]]

\* C22 (as claimed): once setup has run, no step of a v3.1 device in station
\* mode (WiFi check, sensor poll, capture and upload, deterrent, config sync)
\* changes the device id or the server address, in memory or in the store.
IdentityFrame ==
    [][fw = "v31" /\ pc \notin {"boot", "restart"}
       => /\ deviceId' = deviceId
          /\ serverUrl' = serverUrl
          /\ StoredIdentity(prefs') = StoredIdentity(prefs)]_vars

\* C23: a config response that has been applied leaves the profile where a
\* second application of the same payload leaves it: right after
\* fetchRemoteConfig has applied a response, applying its object again to the
\* resulting config changes nothing (clamped cooldown included).
ApplyIdempotent ==
    (fw = "v2" /\ pc = "fetched" /\ isConnected /\ Applied(httpResp))
        => ApplyRemoteConfig(config, httpResp.cfg) = config

\* a cooldown of 100000 s has been applied and clamped to the maximum
ApplyIdempotentWitness ==
    /\ fw = "v2" /\ pc = "fetched" /\ isConnected /\ Applied(httpResp)
    /\ httpResp.cfg = Only("cooldown_sec", JInt(100000))
    /\ config.cooldownSec = MAX_COOLDOWN_SEC
    /\ ApplyRemoteConfig(config, httpResp.cfg) = config

\* the time uploadImage has been waiting for the response
Waited == USub(now, wait.since)

\* C24 (as claimed): the wait of uploadImage for the response is bounded: it
\* never lasts longer than 10 s plus one poll of 100 ms, and when it ends in
\* the timeout outcome, 10 s at least and 10 s plus one poll at most have
\* passed since the request was written.
ResponseWaitBounded ==
    wait.outcome \in {"waiting", "timeout"} =>
        /\ Waited <= 10000 + 100
        /\ wait.outcome = "timeout" => Waited >= 10000

\* C25: a factory reset of a v2 device (reset button held in loop, reset
\* button down at boot, GET /reset: the restarts that do not follow a portal
\* submission) leaves the store empty at the restart, and the setup that runs
\* to its end on an empty store starts the portal with no join attempt, with
\* no credentials and with DEFAULT_SERVER_URL as server address.
FactoryResetBoot ==
    [][fw = "v2" =>
         /\ (pc /= "restart" /\ pc' = "restart" /\ saved' = NoSave) => prefs' = NoPrefs
         /\ (pc = "restart" /\ pc' = "boot") => prefs' = prefs
         /\ (pc = "boot" /\ pc' = "loop" /\ prefs = NoPrefs)
              => /\ isConfigMode' /\ ~isConnected'
                 /\ joinCalls' = 0 /\ portalCalls' = 1
                 /\ strlen(config'.wifiSSID) = 0 /\ strlen(config'.wifiPassword) = 0
                 /\ config'.serverUrl = DEFAULT_SERVER_URL
                 /\ prefs' = NoPrefs]_vars

\* a v2 device that had joined its network has cleared its store and is
\* about to restart
FactoryResetBootWitness ==
    /\ fw = "v2" /\ pc = "restart"
    /\ isConnected /\ strlen(config.wifiSSID) > 0
    /\ saved = NoSave
    /\ prefs = NoPrefs

\* ADC values around the threshold
AroundThreshold(c) == {0, c.analogThreshold - 1, c.analogThreshold, c.analogThreshold + 1, 4095}

\* C26 (as claimed): with the analog sensor selected a reading qualifies
\* exactly when the ADC value is >= config.analogThreshold, whatever the
\* digital level; with the PIR sensor selected an input that has been HIGH
\* since power-on (one LOW-to-HIGH transition at most) gives one honored
\* trigger at most, however many cooldown periods go by.
TriggerStrategies ==
    (fw = "v2" /\ pc \notin {"boot", "restart"}) =>
        /\ config.sensorType /= 0 =>
              \A a \in AroundThreshold(config), high \in BOOLEAN :
                  MotionDetected(config, high, a) <=> a >= config.analogThreshold
        /\ config.sensorType = 0 => detectionCount <= 1

\* C27 (as claimed): every HTTP request handled in portal mode is answered
\* with the configuration page, a redirect to http://192.168.4.1/, the scan
\* result or the save confirmation; the probe paths get the page or the
\* redirect; every DNS query processed is answered with the AP address.
PortalAnswersAll ==
    /\ served.kind /= "none" => served.answer \in {"page", "redirect", "scan", "saved"}
    /\ (served.kind = "get" /\ served.path \in ProbePaths)
          => served.answer \in {"page", "redirect"}
    /\ served.dns \in {"none", "192.168.4.1"}

\* C27 (amended): as claimed, the answers of the v3.0 portal including two
\* more: 400 Missing SSID to a POST /save without an SSID, and the reset page
\* to GET /reset, after which the store is cleared.  No request, whatever its
\* path and method, gets a not-found answer.
PortalAnswers ==
    /\ served.kind /= "none" =>
          \/ served.answer \in {"page", "redirect", "scan", "saved"}
          \/ /\ fw = "v30"
             /\ \/ served.answer = "missing_ssid" /\ served.kind = "save"
                \/ served.answer = "resetting" /\ served.kind = "get"
                      /\ served.path = "/reset"
    /\ (served.kind = "get" /\ served.path \in ProbePaths)
          => served.answer \in {"page", "redirect"}
    /\ served.dns \in {"none", "192.168.4.1"}
    /\ (served.kind /= "none" /\ pc = "tick") => served.dns = "192.168.4.1"

\* a v2 portal has answered a GET for a path it has no route for with the
\* configuration page, and the DNS query after it with its own address
PortalAnswersWitness ==
    /\ fw = "v2" /\ pc = "tick" /\ isConfigMode
    /\ served.kind = "get" /\ served.path = "/favicon.ico"
    /\ served.answer = "page"
    /\ served.dns = "192.168.4.1"

\* C28 (as claimed): a poll of a v2 device that finds a qualifying reading
\* (the PIR sensor selected, its output HIGH) honors it whenever no trigger
\* was honored within the cooldown before it, the first qualifying reading
\* after boot included, at whatever uptime.
FirstEventHonored ==
    [][(fw = "v2" /\ pc = "sensor" /\ pc' /= "sensor" /\ config.sensorType = 0
          /\ (detectionCount = 0
                \/ UGreater(USub(millis, lastMotionDetected), CooldownMs(config))))
       => pc' = "capture" /\ detectionCount' = detectionCount + 1]_vars

\* C29 (as claimed): a v2 device clears its store and restarts on its reset
\* button, in setup or in checkResetButton, only when the button is down and
\* has been down without a break for more than RESET_BUTTON_HOLD_TIME.
ResetNeedsFullHold ==
    [][(fw = "v2" /\ pc \in {"boot", "loop"} /\ pc' = "restart")
       => /\ resetPinLow
          /\ UGreater(USub(now, hold.since), RESET_BUTTON_HOLD_TIME)]_vars

\* C30 (as claimed, the recovery as a property of the WiFi check): in v3.1 a
\* WiFi check of loop that finds the link down calls connectWiFi, of 40 polls
\* at most, before the sensor is read, and leaves wifiConnected false if the
\* join failed; with wifiConnected false captureAndUpload and the periodic
\* fetch issue no HTTP request; and a WiFi check after which the network is
\* available leaves wifiConnected true.
ReconnectInLoop ==
    [][fw = "v31" =>
         /\ (pc = "loop" /\ pc' /= "loop" /\ ~linkUp)
               => /\ pc' = "sensor"
                  /\ joinCalls' = joinCalls + 1
                  /\ joinPolls' <= WIFI_POLLS_V31
                  /\ ~linkUp' => ~wifiConnected'
         /\ (pc \in {"capture", "periodic"} /\ ~wifiConnected) => netOp' = netOp
         /\ (pc = "loop" /\ pc' = "sensor" /\ linkUp') => wifiConnected']_vars

\* the periodic check of loop (v3.1) is about to call fetchConfig
FetchDueV31 ==
    /\ fw = "v31" /\ pc = "periodic" /\ wifiConnected
    /\ IntervalElapsed(millis, lastConfigFetch)

\* the response fetchConfig (v3.1) has just read names a servo_duration of
\* 1 to 60 seconds
DurationOffered(r) ==
    /\ r.code = 200 /\ r.parseOk /\ "servo_duration" \in DOMAIN r.cfg
    /\ r.cfg["servo_duration"].t = "int"
    /\ r.cfg["servo_duration"].i \in 1..60

\* C31: in the v3.1 firmware servoDuration is within 1000..60000 ms in every
\* state reached from the default by fetchConfig calls with any
\* servo_duration (zero, negative, above 60, so large that the product with
\* 1000 leaves 32 bits), and a fetchConfig whose response has no
\* servo_duration or one outside 1..60 leaves servoDuration as it was.
ServoDurationInRange ==
    /\ [](fw = "v31" => servoDuration \in 1000..60000)
    /\ [][FetchDueV31 /\ ~DurationOffered(httpResp') => servoDuration' = servoDuration]_vars

\* fetchConfig has set 60 s, and a later response with 2^29 + 2 seconds,
\* whose product with 1000 wraps to 2000, has left it there
ServoDurationInRangeWitness ==
    /\ fw = "v31" /\ pc = "tick"
    /\ servoDuration = 60000
    /\ httpResp = Resp(200, TRUE, TRUE, Only("servo_duration", JInt(536870914)))
    /\ NewDuration(536870914) = 2000
    /\ NewDuration(4294968) = 704

\* C32: portal mode is absorbing until restart: once isConfigMode (v2) or
\* inPortalMode (v3.0) is true, every step but the restart keeps it true, and
\* no step honors a trigger, captures, uploads, runs the deterrent or fetches
\* a config: loop goes from the client to the end of the iteration; a
\* restart is issued only by a portal save or by a factory reset.
PortalAbsorbing ==
    [][PortalMode /\ pc /= "restart" =>
          /\ PortalMode'
          /\ pc' \in {"client", "tick", "loop", "restart"}
          /\ trig' = trig /\ cap' = cap /\ calls' = calls /\ fbHeld' = fbHeld
          /\ netOp' = netOp /\ httpResp' = httpResp /\ lastConfigFetch' = lastConfigFetch
          /\ startTime' = startTime /\ servo1' = servo1 /\ servo2' = servo2
          /\ (pc' = "restart" => saved'.kind = "save" \/ prefs' = PrefsClear(prefs))]_vars

\* the portal has gone through two iterations of loop and is still there
PortalAbsorbingWitness ==
    /\ PortalMode /\ pc = "tick" /\ ticks >= 2
    /\ trig = NoTrigger /\ cap = NoCapture /\ netOp = NoNetOp

\* C33 (as claimed): activateDeterrent of v3.1 leaves its wave loop no
\* earlier than servoDuration ms after it started and is in it no later
\* than servoDuration + 650 ms after, for every start time, also when
\* startTime + servoDuration is beyond 2^32 - 1.
ServoPatternLasts ==
    fw = "v31" =>
        /\ pc = "centre" => UGeq(USub(millis, startTime), servoDuration)
        /\ pc \in {"wave_while", "wave_back", "wave_beep", "centre"} =>
              ~UGreater(USub(millis, startTime), servoDuration + 650)

\* the time of the last honored trigger as the guard of loop reads it, and the
\* cooldown in ms
LastHonored == IF fw = "v2" THEN lastMotionDetected ELSE lastTrigger
CooldownNow == IF fw = "v2" THEN CooldownMs(config) ELSE COOLDOWN_SECONDS * 1000

\* C34: the cooldown comparison is right across the wrap of the 32-bit clock:
\* with the last honored trigger at a before the wrap and a qualifying
\* reading at b after it, the trigger is honored exactly when the true
\* elapsed time b - a exceeds the cooldown.
CooldownAcrossWrap ==
    [][(pc = "sensor" /\ LastHonored < 0 /\ millis >= 0) =>
          ((pc' = "capture") <=> (millis - LastHonored > CooldownNow))]_vars

\* a trigger 70 s before the wrap, the next one honored 2 s after it
CooldownAcrossWrapWitness ==
    /\ pc = "capture"
    /\ trig.prev = -70000 /\ trig.last = 2000
    /\ ~CooldownElapsedAbsolute(trig.last, trig.prev, trig.cooldownMs)

\* the bytes of the frame the writes so far cover, when they follow one
\* another from byte 0
RECURSIVE Covered(_)
Covered(w) ==
    IF w = <<>> THEN 0
    ELSE LET k == Len(w)
             before == Covered(SubSeq(w, 1, k - 1))
         IN  IF before >= 0 /\ w[k].at = before THEN before + w[k].size ELSE -1

\* C35: uploadImage sends the frame in chunks: for a frame of n bytes the
\* loop makes ceil(n / 1024) writes of 1 to 1024 bytes that cover the bytes
\* 0 .. n-1 once each and in order and never reach past the buffer, and the
\* Content-Length announced is the number of body bytes written (the
\* multipart preamble, the n bytes, the closing boundary).
ChunkedUpload ==
    /\ \A k \in DOMAIN body.writes :
          /\ body.writes[k].size \in 1 .. 1024
          /\ body.writes[k].at + body.writes[k].size <= body.len
    /\ Covered(body.writes) >= 0
    /\ pc \in {"upload_tail", "upload_sent"} =>
          /\ Covered(body.writes) = body.len
          /\ Len(body.writes) = (body.len + 1023) \div 1024
    /\ pc = "upload_sent" =>
          /\ body.contentLength = body.sent
          /\ body.sent = BodyStartLen(body.boundary, config) + body.len
                           + BodyEndLen(body.boundary)

\* a frame of 2049 bytes has gone out in writes of 1024, 1024 and 1 bytes
\* under a boundary of 26 characters
ChunkedUploadWitness ==
    /\ pc = "upload_sent"
    /\ body.len = 2049
    /\ body.writes = <<[at |-> 0, size |-> 1024], [at |-> 1024, size |-> 1024],
                       [at |-> 2048, size |-> 1]>>
    /\ body.boundary = 26
    /\ body.contentLength = 226 + 2049 + 34

\* the flag the periodic check of loop reads
ConnectedNow == IF fw = "v2" THEN isConnected ELSE wifiConnected

\* C36: the device asks for its config every 30 seconds: while it is
\* connected, a periodic fetch is issued only when more than
\* CONFIG_FETCH_INTERVAL ms have gone by since the fetch before it, and no
\* iteration of loop ends with a fetch overdue: the fetch goes out in the
\* first iteration whose periodic check finds the interval elapsed.
FetchEveryInterval ==
    /\ []((pc = "tick" /\ ConnectedNow) =>
            ~UGreater(USub(millis, lastConfigFetch), CONFIG_FETCH_INTERVAL))
    /\ [][(pc = "periodic" /\ netOp'.kind = "fetch" /\ netOp' /= netOp) =>
             /\ ConnectedNow
             /\ lastConfigFetch' = millis
             /\ UGreater(USub(millis, lastConfigFetch), CONFIG_FETCH_INTERVAL)]_vars

\* a second periodic fetch has gone out 30100 ms after the first
FetchEveryIntervalWitness ==
    /\ pc = "tick" /\ ConnectedNow
    /\ netOp.kind = "fetch" /\ netOp.at = lastConfigFetch
    /\ lastConfigFetch > 2 * CONFIG_FETCH_INTERVAL
    /\ ticks >= 3

\* what loadConfig of v3.1 reads from the store: servoDuration and serverUrl
ReloadedV31 ==
    <<PrefsGet(prefs, "servoDur", DEFAULT_SERVO_DURATION),
      PrefsGet(prefs, "serverUrl", DEFAULT_SERVER_URL)>>

\* C37: in the v3.1 firmware the config writes are durable at once: from the
\* end of setup on, at every point between two steps of loop and at the
\* moment the power fails, the store holds the servoDuration and the
\* serverUrl that are in effect in memory, so that loadConfig after a reboot
\* gives them back, whatever fetchConfig has changed.
ConfigDurable ==
    (fw = "v31" /\ pc /= "boot") => ReloadedV31 = <<servoDuration, serverUrl>>

\* the server has pushed 2 s and a new address, the power has failed, and
\* setup has loaded both again before any fetch
ConfigDurableWitness ==
    /\ fw = "v31" /\ pc = "loop"
    /\ servoDuration = 2000 /\ serverUrl = PushedServerUrl
    /\ httpResp = NoResp /\ lastConfigFetch = 0

\* handleTestCapture is running: GET /test is being taken from the client, or
\* the captureAndUpload it called has not returned
TestRunning ==
    /\ fw = "v2"
    /\ \/ pc = "client" /\ pc' = "capture"
       \/ capRet = "client" /\ pc \in {"capture", "upload"}

\* C38: GET /test of the v2 status server runs one capture/upload and
\* nothing else: no step of handleTestCapture changes lastMotionDetected,
\* detectionCount, lastDetectionTime or the config, none runs the deterrent
\* or counts as a trigger, and when it has returned one frame at most has
\* been taken and one upload at most attempted; the request is taken
\* whatever the time since the last trigger.
TestCaptureFrame ==
    /\ [][TestRunning =>
             /\ lastMotionDetected' = lastMotionDetected
             /\ detectionCount' = detectionCount
             /\ lastDetectionTime' = lastDetectionTime
             /\ config' = config /\ trig' = trig
             /\ startTime' = startTime /\ servo1' = servo1 /\ servo2' = servo2
             /\ ledOn' = ledOn /\ buzzerOn' = buzzerOn
             /\ pc' \in {"capture", "upload", "sensor"}
             /\ (pc' = "sensor" =>
                   /\ calls' \in {<<"capture">>, <<"capture", "upload">>}
                   /\ cap'.gets <= 1 /\ cap'.attempts <= 1)]_vars
    /\ [][(fw = "v2" /\ pc = "client" /\ ~isConfigMode /\ pc' = "sensor") =>
             calls' = calls /\ cap' = cap]_vars

\* a test capture has been uploaded 100 ms after the cycle of a trigger, well
\* within the cooldown, and has left the time of the trigger alone
TestCaptureFrameWitness ==
    /\ fw = "v2" /\ pc = "sensor" /\ capRet = "client"
    /\ calls = <<"capture", "upload">>
    /\ trig.last /= -1 /\ lastMotionDetected = trig.last
    /\ detectionCount = 1
    /\ ~CooldownElapsed(millis, lastMotionDetected, CooldownMs(config))

\* the on-pulses begun so far: the one begun by setPattern, and one more for
\* every second change of the LED
OnPulses == (Len(ledTrace.at) + 2) \div 2
\* the time the LED stayed as it was before its i-th change
Stayed(i) == ledTrace.at[i] - (IF i = 1 THEN 0 ELSE ledTrace.at[i - 1])
\* this update() call comes when the time of the present phase has gone by
PhaseOver ==
    /\ pc = "led" /\ statusLed.patternActive
    /\ UGeq(USub(now', statusLed.lastUpdate),
            IF statusLed.ledState THEN statusLed.onTime ELSE statusLed.offTime)

\* C39: after setPattern(on, off, N) with N >= 1, whatever the rate of the
\* update() calls, the LED is on from the call, never begins more than N
\* on-pulses, each pulse lasts at least on ms and each gap at least off ms, an
\* update() that comes when the phase is over moves the pattern on, the pattern
\* ends exactly at the end of pulse N with the LED off, and from then on
\* update() changes nothing; a pattern with count -1 stays active.
CountedPulses ==
    /\ [](pc = "led" =>
            /\ statusLed.blinkCount >= 1 =>
                /\ OnPulses <= statusLed.blinkCount
                /\ statusLed.patternActive =>
                       /\ Len(ledTrace.at) < 2 * statusLed.blinkCount - 1
                       /\ statusLed.ledState = (Len(ledTrace.at) % 2 = 0)
                /\ ~statusLed.patternActive =>
                       /\ Len(ledTrace.at) = 2 * statusLed.blinkCount - 1
                       /\ OnPulses = statusLed.blinkCount
                       /\ ~statusLed.ledState
            /\ statusLed.blinkCount = -1 => statusLed.patternActive
            /\ \A i \in DOMAIN ledTrace.at :
                   Stayed(i) >= (IF i % 2 = 1 THEN statusLed.onTime ELSE statusLed.offTime))
    /\ [][/\ (pc = "led" /\ ~statusLed.patternActive) =>
               (statusLed' = statusLed /\ ledTrace' = ledTrace)
          /\ PhaseOver => Len(ledTrace'.at) = Len(ledTrace.at) + 1]_vars

\* the error pattern, started 120 ms before the wrap of millis() and ticked at
\* uneven rates, has shown its three pulses and has stopped; update() was
\* called after that
CountedPulsesWitness ==
    /\ pc = "led" /\ ledTrace.since = -120
    /\ statusLed.blinkCount = LED_PATTERN_ERROR_COUNT /\ statusLed.onTime = LED_PATTERN_ERROR_ON
    /\ ~statusLed.patternActive /\ ~statusLed.ledState
    /\ ledTrace.at = <<130, 230, 480, 580, 680>>
    /\ UGreater(now, statusLed.lastUpdate)

\* this step serves a submission of the form that has no ssid argument, or an
\* empty one, in the portal of v3.0
SaveWithoutSsid ==
    /\ fw = "v30" /\ inPortalMode /\ pc = "loop" /\ pc' /= "loop"
    /\ served'.kind = "save"
    /\ (saved'.ssid = Absent \/ strlen(saved'.ssid) = 0)

\* C40: in the portal of v3.0 a submission without an ssid argument, or with an
\* empty one, is answered 400 "Missing SSID" and changes nothing: the SSID,
\* the password and the server address in memory and the store stay as they
\* are, no time is waited, no restart is issued and the loop goes on in
\* portal mode.
MissingSsidRejected ==
    [][SaveWithoutSsid =>
          /\ served'.answer = "missing_ssid"
          /\ <<wifiSSID, wifiPass, serverUrl, deviceId, prefs>>' =
                 <<wifiSSID, wifiPass, serverUrl, deviceId, prefs>>
          /\ now' = now
          /\ pc' = "tick" /\ inPortalMode']_vars

\* a device that holds a stored network it could not join has turned down a
\* submission with an empty ssid, has kept what it held, and has served the
\* page to the next request
MissingSsidRejectedWitness ==
    /\ fw = "v30" /\ inPortalMode /\ pc = "tick"
    /\ saved = Save(EmptyStr, Str(5, 10), Str(6, 24), FALSE)
    /\ served.answer = "page"
    /\ wifiSSID = Str(4, 8) /\ serverUrl = Str(6, 24)
    /\ PrefsGet(prefs, "wifiSSID", EmptyStr) = Str(4, 8)

\* C7 (as claimed): waveServos (v2) has returned within its duration plus one
\* step of 1000 / servoSpeed ms, and activateDeterrent of v3.1 within its
\* duration plus one cycle of 650 ms; on return the servos are at 90 degrees,
\* the LED is off and the buzzer is silent.
DeadlineTermination ==
    /\ (fw = "v2" /\ pc = "flash") =>
          /\ servo1 = 90 /\ servo2 = 90
          /\ USub(now, startTime) <= config.servoDuration * 1000 + ServoStepMs(config)
    /\ (fw = "v31" /\ pc = "returned") =>
          USub(now, startTime) <= servoDuration + 650
    /\ pc = "returned" =>
          (servo1 = 90 /\ servo2 = 90 /\ ~ledOn /\ ~buzzerOn)
=============================================================================
